---- MODULE Spec2Model ----
(***************************************************************************)
(* PyChunkedGraph: a state-machine model of                                *)
(*   - the multiprocessing ingest scheduler  (pychunkedgraph/ingest/main.py)*)
(*   - the hierarchy writer and reader       (src/pychunkedgraph/chunkedgraph.py,*)
(*                                            graph/chunkedgraph.py)       *)
(*   - the root lock manager                 (graph/client/base.py)        *)
(* Each part has its own specification; the variables of the other parts   *)
(* are held at their idle value.                                           *)
(***************************************************************************)
EXTENDS Integers, Sequences, FiniteSets, TLC

VARIABLES
    \* ---- ingest scheduler (ingest/main.py) ----
    icfg,          \* [n_workers, nprocs, build_graph]: start_ingest's inputs
    task_q,        \* multiprocessing.Queue: Seq of tasks <<layer, x>> or STOP
    counts,        \* parent_children_count_d_shared: task -> Int (NoKey: absent)
    locks,         \* parent_children_count_d_locks: task -> lock object (0: None)
    held,          \* the manager.Lock objects <<task, object>> that are acquired
    layer_counts,  \* layer_task_counts_d_shared: [c: layer -> Int, q: layer -> Int]
    wk,            \* per worker process: its position in _worker/_work/_enqueue_parent
    hist,          \* history: completed[t], enq[t], decs[t], fails, stops
    \* ---- hierarchy in the table (chunkedgraph.py) ----
    table,         \* the bigtable table: node id -> row
    now,           \* the clock that stamps cells
    gin,           \* ingest of the graph: the dataset and the steps done
    ops,           \* per edit operation: its position in add_edge and what it computed
    ghist,         \* history: ids handed out, overlapping edits, last commit
    \* ---- root locks (graph/client/base.py) ----
    lockcol,       \* the lock column of every row: holder, expiry, indefinite
    ltime,         \* the clock lock expiry is measured against
    lops,          \* per operation: where it is with its locks, and what it knows
    lhist,         \* history: every lock call and its answer
    \* ---- edit operations and their log (graph/chunkedgraph.py, spec 4.H) ----
    eng,           \* supervoxel graph, root of every supervoxel, operation log
    \* ---- repair of failed operations (jobs/repair/main.py) ----
    rep,           \* failed-operation logs and the position of the repair job
    \* ---- the graph object of a reader (graph/chunkedgraph.py) ----
    rd,            \* its cache, and where its get_root call is
    \* ---- the polling ingest job (jobs/ingestion.py) ----
    job            \* fanout, chunk bounds, the redis results and the rq queue

varsI == <<icfg, task_q, counts, locks, held, layer_counts, wk, hist>>
varsG == <<table, now, gin, ops, ghist>>
varsL == <<lockcol, ltime, lops, lhist>>
varsE == <<eng, rep, rd, job>>
vars == <<icfg, task_q, counts, locks, held, layer_counts, wk, hist,
          table, now, gin, ops, ghist, lockcol, ltime, lops, lhist, eng, rep, rd, job>>

(***************************************************************************)
(* Bounds                                                                  *)
(***************************************************************************)
NAtomic == 3        \* atomic (layer 2) chunks along x; the dataset is NAtomic x 1 x 1
MaxWorkers == 2     \* n_workers is drawn from 1..MaxWorkers
MaxProcs == 2       \* NUMBER_OF_PROCESSES (cpu_count() - 1) is drawn from 1..MaxProcs
MaxFailures == 1    \* task functions raise at most this often in one run
MaxSeg == 5         \* find_unique_node_id draws segment ids from 0..MaxSeg-1
MaxOps == 2         \* edit operations in one run
LockTTL == 2        \* a lock expires this many ticks after it was taken or renewed
MaxTime == 4        \* the lock clock runs from 0 to MaxTime

FANOUT == 2
STOP_SENTINEL == <<0, 0>>
NoKey == 0 - 1

(***************************************************************************)
(* Chunk geometry of the ingest tasks (ChunkTask, ingest/types.py)         *)
(***************************************************************************)
RECURSIVE Pow(_, _)
Pow(b, e) == IF e = 0 THEN 1 ELSE b * Pow(b, e - 1)

CeilDiv(a, b) == (a + b - 1) \div b

\* meta.layer_chunk_bounds[layer] along x
layer_chunk_bounds(layer) == CeilDiv(NAtomic, Pow(FANOUT, layer - 2))

RECURSIVE LayerFrom(_)
LayerFrom(l) == IF layer_chunk_bounds(l) <= 1 THEN l ELSE LayerFrom(l + 1)

\* meta.layer_count: the first layer with a single chunk (at least 3)
layer_count == LayerFrom(3)

Tasks == { <<l, x>> : l \in 2..(layer_count + 1), x \in 0..(NAtomic - 1) }

\* ChunkTask.parent_task()
parent_task(t) == <<t[1] + 1, t[2] \div FANOUT>>

\* ChunkTask.children_coords: the in-bounds child chunks of a parent
children_coords(p) ==
    { <<p[1] - 1, x>> : x \in { c \in 0..(layer_chunk_bounds(p[1] - 1) - 1) : c \div FANOUT = p[2] } }

AtomicTasks == { <<2, x>> : x \in 0..(NAtomic - 1) }
ParentTasks == { t \in Tasks : t[1] \in 3..layer_count /\ t[2] < layer_chunk_bounds(t[1]) }
RealTasks == AtomicTasks \cup ParentTasks

Workers == 1..MaxWorkers

RECURSIVE Perms(_)
Perms(S) ==
    IF S = {} THEN { <<>> }
    ELSE UNION { { <<x>> \o p : p \in Perms(S \ {x}) } : x \in S }

RECURSIVE Repeat(_, _)
Repeat(x, n) == IF n <= 0 THEN <<>> ELSE <<x>> \o Repeat(x, n - 1)

(***************************************************************************)
(* The table (chunkedgraph.py): node ids, rows, cells                      *)
(***************************************************************************)
\* x coordinates of the atomic chunks of the stored graph
ChunkXs == {0, 1}

\* the layer of the root nodes: supervoxels are layer 1, atomic chunks layer 2
TopLayer == 2 + Cardinality(ChunkXs) - 1

Ops == 1..MaxOps

\* a node id <<layer, x, segment>>: the bytes [segment:4][z][y][x][layer]
AllIds == { <<l, x, s>> : l \in 1..TopLayer, x \in ChunkXs, s \in 0..(MaxSeg - 1) }

\* Python's None, and a raised exception
NoId == <<0, 0, 0>>
ErrId == <<0, 0, 1>>

\* get_chunk_id_from_node_id: z, y, x, l
get_chunk_id_from_node_id(id) == <<id[2], id[1]>>

\* test_if_nodes_are_in_same_chunk: the upper uint32 of the two ids is equal
test_if_nodes_are_in_same_chunk(a, b) ==
    get_chunk_id_from_node_id(a) = get_chunk_id_from_node_id(b)

\* a row that was never written: table.read_row returns None
EmptyRow ==
    [ exists |-> FALSE,
      parents |-> <<>>,            \* cells <<value, timestamp>>, newest first
      haschildren |-> FALSE, children |-> {},
      hascross |-> FALSE, cross |-> {},      \* atomic_cross_edges
      partners |-> {},             \* atomic_partners cells <<partner, timestamp>>
      new_parents |-> {}, former_parents |-> {} ]

\* the table holds the rows that were written
EmptyTable == [ id \in {} |-> EmptyRow ]

\* table.read_row
read_row(tbl, id) == IF id \in DOMAIN tbl THEN tbl[id] ELSE EmptyRow

\* mutate_row(table, row_key, family, val_dict, time_stamp): one row object with
\* its set_cell calls; ts = 0 is time_stamp=None, the server stamps the cells
RowOf(key, ts) ==
    [ key |-> key, ts |-> ts, parents |-> NoId,
      setchildren |-> FALSE, children |-> {},
      setcross |-> FALSE, cross |-> {},
      partners |-> {}, new_parents |-> NoId, former_parents |-> {} ]

\* the supervoxels of the dataset and the merge requests users send
a1 == <<1, 0, 0>>
a2 == <<1, 0, 1>>
b1 == <<1, 0, 2>>
b2 == <<1, 0, 3>>
t1 == <<1, 1, 0>>
t2 == <<1, 1, 1>>
Supervoxels == {a1, a2, b1, b2, t1, t2}
MergeInputs == { <<a2, b1>>, <<a1, t1>>, <<b2, t2>>, <<a1, a2>> }

OpIdle ==
    [ pc |-> "new", edge |-> <<NoId, NoId>>, ts |-> 0, rows |-> <<>>, next |-> 1,
      st |-> 0, ids |-> <<>>, orig |-> <<NoId, NoId>>, pre |-> <<NoId, NoId>>,
      roots0 |-> <<>>, edges0 |-> {}, snap |-> EmptyTable ]

GhistIdle == [ alloc |-> {}, overlap |-> FALSE, early |-> FALSE, last |-> 0 ]

\* no graph is stored, nobody edits
IdleG ==
    /\ table = EmptyTable
    /\ now = 1
    /\ gin = [ cross |-> FALSE, atomic |-> {}, layers |-> {} ]
    /\ ops = [ o \in Ops |-> OpIdle ]
    /\ ghist = GhistIdle

(***************************************************************************)
(* Root locks: the lock column and what an operation knows of its locks    *)
(***************************************************************************)
\* the roots operations ask locks for
LockRoots == { <<TopLayer, 0, 0>>, <<TopLayer, 0, 1>> }

NoLock == [ op |-> 0, expires |-> 0, indef |-> FALSE ]

NoExpiry == 0 - 1

LopIdle ==
    [ pc |-> "created", want |-> {}, got |-> {},
      exp |-> [ r \in LockRoots |-> NoExpiry ], indef |-> {} ]

\* nobody locks
IdleL ==
    /\ lockcol = [ r \in LockRoots |-> NoLock ]
    /\ ltime = 0
    /\ lops = [ o \in Ops |-> LopIdle ]
    /\ lhist = {}

(***************************************************************************)
(* Edit operations over the supervoxel graph: merge, split, undo           *)
(***************************************************************************)
NoEdge == <<NoId, NoId>>

EngIdleLast == [ kind |-> "none", op |-> 0, imm |-> FALSE ]

\* no operation was ever run, nothing is logged
EngIdle ==
    [ edges |-> {}, root |-> [ n \in Supervoxels |-> 0 ], next |-> 1, log |-> <<>>,
      pre |-> [ root |-> [ n \in Supervoxels |-> 0 ], edges |-> {}, e |-> NoEdge ],
      last |-> EngIdleLast ]

\* no operation has failed, the repair job is not running
RepIdle ==
    [ flog |-> {}, failed |-> {}, roots |-> [ o \in Ops |-> {} ], commits |-> {},
      pc |-> "idle", cur |-> 0, todo |-> {}, executed |-> {}, raised |-> {} ]

IdleEng == eng = EngIdle

IdleRep == rep = RepIdle

\* ChunkedGraph.__init__: _cache_service = None; no call is under way
RdIdle ==
    [ cache |-> FALSE, pc |-> "idle", node |-> NoId, ts |-> 0, stop |-> 0,
      n_tries |-> 0, left |-> 0, walks |-> 0, parent |-> NoId, i |-> 0,
      res |-> NoId, hit |-> NoId, box |-> <<>>, sub |-> {},
      cx |-> [ uplift |-> FALSE, err |-> FALSE, layer |-> 0, edges |-> {} ],
      cat |-> [ supervoxels |-> {}, edges |-> {}, sv_parent_d |-> <<>>, err |-> FALSE,
                res |-> <<{}, {}, {}>> ],
      \* the CacheService in _cache_service: the operation whose entry point
      \* made it, the nodes staged in it; and the edit calls on this object
      \* a read of one column for several ids: the ids, the result, a raise
      rc |-> [ ids |-> {}, err |-> FALSE, res |-> <<>> ],
      ec |-> [ owner |-> 0, staged |-> {},
               calls |-> [ o \in 1..2 |-> [ pc |-> "idle", kind |-> "none", n |-> 0,
                                            start |-> {}, seen |-> {} ] ] ] ]

IdleRd == rd = RdIdle

\* run_ingest was not called
JobIdle ==
    [ fan_out |-> 0, chunk_id_bounds |-> <<>>, todo |-> {}, queued |-> {},
      finished |-> {}, completed |-> 0, enq |-> <<>>, polled |-> {} ]

IdleJob == job = JobIdle

IdleE == IdleEng /\ IdleRep /\ IdleRd /\ IdleJob

(***************************************************************************)
(* Ingest scheduler: start_ingest, _worker, _work, _enqueue_parent         *)
(***************************************************************************)
NoTask == <<0, 0>>

WkIdle == [pc |-> "idle", task |-> NoTask, ref |-> 0, v |-> 0, queued |-> FALSE]
WkNone == [pc |-> "none", task |-> NoTask, ref |-> 0, v |-> 0, queued |-> FALSE]

\* start_ingest: the state in which the worker processes are started
InitI ==
    /\ icfg \in [n_workers : 1..MaxWorkers, nprocs : 1..MaxProcs, build_graph : BOOLEAN]
    /\ \E order \in Perms(AtomicTasks) :
          task_q = order \o (IF icfg.build_graph THEN <<>>
                             ELSE Repeat(STOP_SENTINEL, icfg.nprocs))
    /\ counts = [t \in Tasks |-> NoKey]
    /\ locks = [t \in Tasks |-> IF t \in { parent_task(a) : a \in AtomicTasks } THEN 1 ELSE 0]
    /\ held = {}
    /\ layer_counts = [c |-> [l \in 2..layer_count |-> 0],
                       q |-> [l \in 2..layer_count |-> IF l = 2 THEN NAtomic ELSE 0]]
    /\ wk = [w \in Workers |-> IF w <= icfg.n_workers THEN WkIdle ELSE WkNone]
    /\ hist = [completed |-> [t \in RealTasks |-> 0],
               enq |-> [t \in ParentTasks |-> 0],
               decs |-> [t \in ParentTasks |-> 0],
               fails |-> 0, stops |-> 0]

\* the scheduler is not running
IdleI ==
    /\ icfg = [n_workers |-> 0, nprocs |-> 0, build_graph |-> FALSE]
    /\ task_q = <<>>
    /\ counts = [t \in Tasks |-> NoKey]
    /\ locks = [t \in Tasks |-> 0]
    /\ held = {}
    /\ layer_counts = [c |-> [l \in 2..layer_count |-> 0], q |-> [l \in 2..layer_count |-> 0]]
    /\ wk = [w \in Workers |-> WkNone]
    /\ hist = [completed |-> [t \in RealTasks |-> 0],
               enq |-> [t \in ParentTasks |-> 0],
               decs |-> [t \in ParentTasks |-> 0],
               fails |-> 0, stops |-> 0]

\* the parent whose critical section worker w is working on
ParentOf(w) == parent_task(wk[w].task)

\* leaving the `with parent_children_count_d_locks[parent.id]` block
Release(w) == held \ { <<ParentOf(w), wk[w].ref>> }

\* an uncaught KeyError inside the with block: the lock is released, the process dies
Crash(w) ==
    /\ held' = Release(w)
    /\ wk' = [wk EXCEPT ![w].pc = "crashed"]

\* a counter that starts one child short
InitialCount_m(p) == Cardinality(children_coords(p)) - 1

\* _enqueue_parent line 67: the initial number of child chunks
InitialCount(p) == Cardinality(children_coords(p))

\* _enqueue_parent line 72: all dependents complete
IsZero(v) == v = 0

\* _worker line 137: `if not success`, success being False, None or True
NotSuccess(success) == success \in {"False", "None"}

\* _worker: task_q.get
Get(w) ==
    /\ wk[w].pc = "idle"
    /\ task_q # <<>>
    /\ task_q' = Tail(task_q)
    /\ wk' = IF Head(task_q) = STOP_SENTINEL
             THEN [wk EXCEPT ![w].pc = "exit"]
             ELSE [wk EXCEPT ![w].pc = "run", ![w].task = Head(task_q)]
    /\ UNCHANGED <<icfg, counts, locks, held, layer_counts, hist, varsG, varsL, varsE>>

\* _work lines 98-103: func raised; _worker requeues the task
RunFail(w) ==
    /\ wk[w].pc = "run"
    /\ hist.fails < MaxFailures
    /\ NotSuccess("False")
    /\ task_q' = Append(task_q, wk[w].task)
    /\ hist' = [hist EXCEPT !.fails = @ + 1]
    /\ wk' = [wk EXCEPT ![w] = WkIdle]
    /\ UNCHANGED <<icfg, counts, locks, held, layer_counts, varsG, varsL, varsE>>

\* _work: func returned, build_graph is off: straight to the layer counters
RunOkNoBuild(w) ==
    /\ wk[w].pc = "run"
    /\ ~icfg.build_graph
    /\ hist' = [hist EXCEPT !.completed[wk[w].task] = @ + 1]
    /\ wk' = [wk EXCEPT ![w].pc = "tally", ![w].queued = FALSE]
    /\ UNCHANGED <<icfg, task_q, counts, locks, held, layer_counts, varsG, varsL, varsE>>

\* _work lines 107-110: the finished task was the top layer's: _signal_end, and
\* `return` (None); _worker line 137 then takes None for a failure
RunOkTop(w) ==
    /\ wk[w].pc = "run"
    /\ icfg.build_graph
    /\ ParentOf(w)[1] > layer_count
    /\ task_q' = task_q \o Repeat(STOP_SENTINEL, icfg.nprocs)
                        \o (IF NotSuccess("None") THEN <<wk[w].task>> ELSE <<>>)
    /\ hist' = [hist EXCEPT !.completed[wk[w].task] = @ + 1, !.stops = @ + 1]
    /\ wk' = [wk EXCEPT ![w] = WkIdle]
    /\ UNCHANGED <<icfg, counts, locks, held, layer_counts, varsG, varsL, varsE>>

\* _work lines 107-112: the finished task has a parent to count down
RunOkParent(w) ==
    /\ wk[w].pc = "run"
    /\ icfg.build_graph
    /\ ParentOf(w)[1] <= layer_count
    /\ hist' = [hist EXCEPT !.completed[wk[w].task] = @ + 1]
    /\ wk' = [wk EXCEPT ![w].pc = "fetchlock"]
    /\ UNCHANGED <<icfg, task_q, counts, locks, held, layer_counts, varsG, varsL, varsE>>

\* _enqueue_parent line 64: parent_children_count_d_locks[parent.id] is looked up ...
FetchLock(w) ==
    /\ wk[w].pc = "fetchlock"
    /\ wk' = [wk EXCEPT ![w].pc = IF locks[ParentOf(w)] = 0 THEN "crashed" ELSE "acquire",
                        ![w].ref = locks[ParentOf(w)]]
    /\ UNCHANGED <<icfg, task_q, counts, locks, held, layer_counts, hist, varsG, varsL, varsE>>

\* ... and the lock object found is acquired
Acquire(w) ==
    /\ wk[w].pc = "acquire"
    /\ <<ParentOf(w), wk[w].ref>> \notin held
    /\ held' = held \cup { <<ParentOf(w), wk[w].ref>> }
    /\ wk' = [wk EXCEPT ![w].pc = "check"]
    /\ UNCHANGED <<icfg, task_q, counts, locks, layer_counts, hist, varsG, varsL, varsE>>

\* line 65: `if not parent.id in parent_children_count_d_shared`
Check(w) ==
    /\ wk[w].pc = "check"
    /\ wk' = [wk EXCEPT ![w].pc = IF counts[ParentOf(w)] = NoKey THEN "init" ELSE "get"]
    /\ UNCHANGED <<icfg, task_q, counts, locks, held, layer_counts, hist, varsG, varsL, varsE>>

\* line 67
InitCount(w) ==
    /\ wk[w].pc = "init"
    /\ counts' = [counts EXCEPT ![ParentOf(w)] = InitialCount(ParentOf(w))]
    /\ wk' = [wk EXCEPT ![w].pc = "get"]
    /\ UNCHANGED <<icfg, task_q, locks, held, layer_counts, hist, varsG, varsL, varsE>>

\* line 70, `d[k] -= 1` on a manager dict: the read ...
GetCount(w) ==
    /\ wk[w].pc = "get"
    /\ IF counts[ParentOf(w)] = NoKey
       THEN Crash(w)
       ELSE /\ wk' = [wk EXCEPT ![w].pc = "set", ![w].v = counts[ParentOf(w)]]
            /\ UNCHANGED held
    /\ UNCHANGED <<icfg, task_q, counts, locks, layer_counts, hist, varsG, varsL, varsE>>

\* ... and the write
SetCount(w) ==
    /\ wk[w].pc = "set"
    /\ counts' = [counts EXCEPT ![ParentOf(w)] = wk[w].v - 1]
    /\ hist' = [hist EXCEPT !.decs[ParentOf(w)] = @ + 1]
    /\ wk' = [wk EXCEPT ![w].pc = "test"]
    /\ UNCHANGED <<icfg, task_q, locks, held, layer_counts, varsG, varsL, varsE>>

\* line 72
TestCount(w) ==
    /\ wk[w].pc = "test"
    /\ IF counts[ParentOf(w)] = NoKey
       THEN Crash(w)
       ELSE IF IsZero(counts[ParentOf(w)])
            THEN /\ wk' = [wk EXCEPT ![w].pc = "del"]
                 /\ UNCHANGED held
            ELSE /\ wk' = [wk EXCEPT ![w].pc = "tally", ![w].queued = FALSE]
                 /\ held' = Release(w)
    /\ UNCHANGED <<icfg, task_q, counts, locks, layer_counts, hist, varsG, varsL, varsE>>

\* line 73
DelCount(w) ==
    /\ wk[w].pc = "del"
    /\ IF counts[ParentOf(w)] = NoKey
       THEN Crash(w) /\ UNCHANGED counts
       ELSE /\ counts' = [counts EXCEPT ![ParentOf(w)] = NoKey]
            /\ wk' = [wk EXCEPT ![w].pc = "put"]
            /\ UNCHANGED held
    /\ UNCHANGED <<icfg, task_q, locks, layer_counts, hist, varsG, varsL, varsE>>

\* lines 74-76: a new lock object for the grandparent, the parent task is queued
PutParent(w) ==
    /\ wk[w].pc = "put"
    /\ locks' = [locks EXCEPT ![parent_task(ParentOf(w))] = @ + 1]
    /\ task_q' = Append(task_q, ParentOf(w))
    /\ hist' = [hist EXCEPT !.enq[ParentOf(w)] = @ + 1]
    /\ held' = Release(w)
    /\ wk' = [wk EXCEPT ![w].pc = "tally", ![w].queued = TRUE]
    /\ UNCHANGED <<icfg, counts, layer_counts, varsG, varsL, varsE>>

\* _work lines 120-125, under layer_task_counts_d_lock
Tally(w) ==
    /\ wk[w].pc = "tally"
    /\ LET l == wk[w].task[1]
           c1 == [layer_counts.c EXCEPT ![l] = @ + 1]
           q1 == [layer_counts.q EXCEPT ![l] = @ - 1]
           q2 == IF wk[w].queued THEN [q1 EXCEPT ![l + 1] = @ + 1] ELSE q1
       IN layer_counts' = [c |-> c1, q |-> q2]
    /\ wk' = [wk EXCEPT ![w] = WkIdle]
    /\ UNCHANGED <<icfg, task_q, counts, locks, held, hist, varsG, varsL, varsE>>

NextIngest ==
    \E w \in Workers :
        \/ Get(w)
        \/ RunFail(w)
        \/ RunOkNoBuild(w)
        \/ RunOkTop(w)
        \/ RunOkParent(w)
        \/ FetchLock(w)
        \/ Acquire(w)
        \/ Check(w)
        \/ InitCount(w)
        \/ GetCount(w)
        \/ SetCount(w)
        \/ TestCount(w)
        \/ DelCount(w)
        \/ PutParent(w)
        \/ Tally(w)

\* start_ingest has started the workers; no graph is edited, nobody locks
InitIngest == InitI /\ IdleG /\ IdleL /\ IdleE

SpecIngest == InitIngest /\ [][NextIngest]_vars

(***************************************************************************)
(* Storage: cells are kept newest first; a write without a time stamp is   *)
(* stamped by the server                                                   *)
(***************************************************************************)
InsertCell(cells, c) ==
    SelectSeq(cells, LAMBDA d : d[2] > c[2]) \o <<c>> \o
    SelectSeq(cells, LAMBDA d : d[2] < c[2])

\* one entry of table.mutate_rows(rows), applied at server time t
ApplyRow(tbl, m, t) ==
    LET ts == IF m.ts = 0 THEN t ELSE m.ts
        r == read_row(tbl, m.key)
        w ==
           [ exists |-> TRUE,
             parents |-> IF m.parents = NoId THEN r.parents
                         ELSE InsertCell(r.parents, <<m.parents, ts>>),
             haschildren |-> r.haschildren \/ m.setchildren,
             children |-> IF m.setchildren THEN m.children ELSE r.children,
             hascross |-> r.hascross \/ m.setcross,
             cross |-> IF m.setcross THEN m.cross ELSE r.cross,
             partners |-> r.partners \cup { <<q, ts>> : q \in m.partners },
             new_parents |-> IF m.new_parents = NoId THEN r.new_parents
                             ELSE {m.new_parents},
             former_parents |-> IF m.former_parents = {} THEN r.former_parents
                                ELSE m.former_parents ]
    IN [ id \in DOMAIN tbl \cup {m.key} |-> IF id = m.key THEN w ELSE tbl[id] ]

\* table.mutate_rows(rows) with all entries applied
RECURSIVE mutate_rows(_, _, _)
mutate_rows(tbl, rows, t) ==
    IF rows = <<>> THEN tbl
    ELSE mutate_rows(ApplyRow(tbl, Head(rows), t), Tail(rows), t)

\* the order of serialized keys
IdLess(a, b) ==
    \/ a[1] < b[1]
    \/ a[1] = b[1] /\ a[2] < b[2]
    \/ a[1] = b[1] /\ a[2] = b[2] /\ a[3] < b[3]

SetMin(S) == CHOOSE m \in S : \A y \in S : y = m \/ IdLess(m, y)

RECURSIVE SortIds(_)
SortIds(S) == IF S = {} THEN <<>> ELSE <<SetMin(S)>> \o SortIds(S \ {SetMin(S)})

\* nx.connected_components: the component of the nodes in `seen`
RECURSIVE Grow(_, _, _)
Grow(seen, N, E) ==
    LET nxt == { y \in N \ seen :
                   \E x \in seen : <<x, y>> \in E \/ <<y, x>> \in E }
    IN IF nxt = {} THEN seen ELSE Grow(seen \cup nxt, N, E)

\* list(nx.connected_components(g)), enumerated
RECURSIVE connected_components(_, _)
connected_components(N, E) ==
    IF N = {} THEN <<>>
    ELSE LET c == Grow({SetMin(N)}, N, E)
         IN <<c>> \o connected_components(N \ c, E)

RECURSIVE Flatten(_)
Flatten(ss) == IF ss = <<>> THEN <<>> ELSE Head(ss) \o Flatten(Tail(ss))

(***************************************************************************)
(* Ingest of the graph: add_atomic_edges_in_chunks, add_layer              *)
(***************************************************************************)
\* edge_ids of an atomic chunk: the edges inside it
ChunkEdges(x) == IF x = 0 THEN { <<a1, a2>>, <<b1, b2>> } ELSE { <<t1, t2>> }

\* cross_edge_ids of an atomic chunk, ordered to point out of the chunk
CrossEdges(x, cross) ==
    IF ~cross THEN {} ELSE IF x = 0 THEN { <<a1, t1>> } ELSE { <<t1, a1>> }

\* add_atomic_edges_in_chunks: the rows it writes
add_atomic_edges_in_chunks(x, edge_ids, cross_edge_ids) ==
    IF edge_ids = {} THEN <<>>
    ELSE
      LET nodes == { e[1] : e \in edge_ids } \cup { e[2] : e \in edge_ids }
                   \cup { e[1] : e \in cross_edge_ids }
          ccs == connected_components(nodes, edge_ids)
          l == SetMin(nodes)[1]
          RowsOf(i) ==
            LET cc == ccs[i]
                parent_id == <<l + 1, x, i - 1>>
                ns == SortIds(cc)
                NodeRow(n) ==
                  [ RowOf(n, 0) EXCEPT
                      !.partners = { e[2] : e \in { f \in edge_ids : f[1] = n } }
                              \cup { e[1] : e \in { f \in edge_ids : f[2] = n } }
                              \cup { e[2] : e \in { f \in cross_edge_ids : f[1] = n } },
                      !.parents = parent_id ]
            IN [ k \in 1..Len(ns) |-> NodeRow(ns[k]) ] \o
               << [ RowOf(parent_id, 0) EXCEPT
                      !.setchildren = TRUE, !.children = cc,
                      !.setcross = TRUE,
                      !.cross = { e \in cross_edge_ids : e[1] \in cc } ] >>
      IN Flatten([ i \in 1..Len(ccs) |-> RowsOf(i) ])

\* add_layer, part 1: the rows of the child chunks found by the range reads
ChildRows(tbl, layer_id, child_chunk_coords) ==
    { id \in AllIds : id[1] = layer_id - 1 /\ id[2] \in child_chunk_coords
                      /\ read_row(tbl, id).exists }

\* add_layer line 312 raises KeyError on a row without atomic_cross_edges
add_layer_ok(tbl, layer_id, child_chunk_coords) ==
    \A id \in ChildRows(tbl, layer_id, child_chunk_coords) : read_row(tbl, id).hascross

\* add_layer: the rows it writes
add_layer(tbl, layer_id, child_chunk_coords) ==
    LET keys == ChildRows(tbl, layer_id, child_chunk_coords)
        u_atomic_child_ids == UNION { { e[1] : e \in read_row(tbl, k).cross } : k \in keys }
        leftover(k) == { e \in read_row(tbl, k).cross : e[2] \notin u_atomic_child_ids }
        partners(k) ==
            { d \in keys : \E e \in read_row(tbl, d).cross :
                              e[1] \in { f[2] : f \in read_row(tbl, k).cross } }
        edge_ids == { e \in keys \X keys : e[2] \in partners(e[1]) }
        ccs == connected_components(keys, edge_ids)
        x == CHOOSE m \in child_chunk_coords : \A y \in child_chunk_coords : m <= y
        RowsOf(i) ==
            LET cc == ccs[i]
                parent_id == <<layer_id, x, i - 1>>
                ns == SortIds(cc)
            IN [ k \in 1..Len(ns) |-> [ RowOf(ns[k], 0) EXCEPT !.parents = parent_id ] ]
               \o << [ RowOf(parent_id, 0) EXCEPT
                         !.setchildren = TRUE, !.children = cc,
                         !.setcross = TRUE,
                         !.cross = UNION { leftover(n) : n \in cc } ] >>
    IN Flatten([ i \in 1..Len(ccs) |-> RowsOf(i) ])

(***************************************************************************)
(* Reading the hierarchy                                                   *)
(***************************************************************************)
\* chunkedgraph.py get_parent: None without a parents column, the newest cell not
\* after time_stamp otherwise; raises when the row or such a cell is missing
get_parent(tbl, node_id, time_stamp) ==
    IF node_id \notin AllIds \/ ~read_row(tbl, node_id).exists THEN ErrId
    ELSE IF read_row(tbl, node_id).parents = <<>> THEN NoId
    ELSE LET valid == SelectSeq(read_row(tbl, node_id).parents, LAMBDA c : c[2] <= time_stamp)
         IN IF valid = <<>> THEN ErrId ELSE valid[1][1]

\* chunkedgraph.py get_root: up the parents until there is none
RECURSIVE get_root(_, _, _)
get_root(tbl, node_id, time_stamp) ==
    LET temp_parent_id == get_parent(tbl, node_id, time_stamp)
    IN IF temp_parent_id = ErrId THEN ErrId
       ELSE IF temp_parent_id = NoId THEN node_id
       ELSE get_root(tbl, temp_parent_id, time_stamp)

\* the newest parents cell of a row, the current parent: what cache.parent(node_id)
\* answers for an id the cache does not hold, by reading it without a time stamp
CurrentParent(tbl, n) ==
    IF read_row(tbl, n).parents = <<>> THEN NoId ELSE read_row(tbl, n).parents[1][1]

\* graph/chunkedgraph.py get_parent: without a cache the newest cell up to
\* time_stamp, None when no cell is read; with a cache self.cache.parent(node_id)
graph_get_parent(tbl, node_id, time_stamp) ==
    IF node_id[1] = 0 THEN NoId
    ELSE IF rd.cache THEN CurrentParent(tbl, node_id)
    ELSE LET parents == SelectSeq(read_row(tbl, node_id).parents, LAMBDA c : c[2] <= time_stamp)
         IN IF parents = <<>> THEN NoId ELSE parents[1][1]

get_chunk_layer(node_id) == node_id[1]

\* the walk with the test of line 397 passed only above stop_layer
RECURSIVE RootWalk_m(_, _, _, _, _)
RootWalk_m(tbl, parent_id, time_stamp, stop_layer, i) ==
    IF i > stop_layer THEN parent_id
    ELSE LET temp_parent_id == graph_get_parent(tbl, parent_id, time_stamp)
         IN IF temp_parent_id = NoId THEN parent_id
            ELSE IF get_chunk_layer(temp_parent_id) > stop_layer THEN temp_parent_id
            ELSE RootWalk_m(tbl, temp_parent_id, time_stamp, stop_layer, i + 1)

\* graph/chunkedgraph.py get_root, lines 390-398: the inner loop from index i on
RECURSIVE RootWalk(_, _, _, _, _)
RootWalk(tbl, parent_id, time_stamp, stop_layer, i) ==
    IF i > stop_layer THEN parent_id
    ELSE LET temp_parent_id == graph_get_parent(tbl, parent_id, time_stamp)
         IN IF temp_parent_id = NoId THEN parent_id
            ELSE IF get_chunk_layer(temp_parent_id) >= stop_layer THEN temp_parent_id
            ELSE RootWalk(tbl, temp_parent_id, time_stamp, stop_layer, i + 1)

\* graph/chunkedgraph.py get_root with n_tries = 1; stop_layer 0 is stop_layer=None,
\* replaced by meta.layer_count; ErrId is RootNotFound
graph_get_root(tbl, node_id, time_stamp, stop_layer) ==
    LET stop == IF stop_layer = 0 THEN TopLayer ELSE stop_layer
    IN IF get_chunk_layer(node_id) = stop THEN node_id
       ELSE LET parent_id == RootWalk(tbl, node_id, time_stamp, stop,
                                      get_chunk_layer(node_id))
            IN IF get_chunk_layer(parent_id) < stop THEN ErrId ELSE parent_id

\* graph/chunkedgraph.py get_parents with current=True on the ids S: the parent
\* of each; <<>> stands for the empty list returned when no row is read and for
\* the KeyError on an id without a row among the rows read
get_parents(tbl, S, time_stamp) ==
    IF S = {} \/ \E n \in S : graph_get_parent(tbl, n, time_stamp) = NoId THEN <<>>
    ELSE [ n \in S |-> graph_get_parent(tbl, n, time_stamp) ]

\* get_roots lines 354-358 with `not any(layer_exceed_mask)` left out
roots_done_m(temp, parent_ids, stop_layer, ceil) == IF ceil THEN temp ELSE parent_ids

\* get_roots lines 354-358: all ids are at stop_layer or above, what is returned
roots_done(temp, parent_ids, stop_layer, ceil) ==
    IF ceil \/ ~\E i \in 1..Len(temp) : get_chunk_layer(temp[i]) > stop_layer
    THEN temp ELSE parent_ids

\* get_roots lines 347-360: the inner loop with k turns left; <<ErrId>> is the
\* exception of indexing what get_parents returned
RECURSIVE RootsLoop(_, _, _, _, _, _, _)
RootsLoop(tbl, parent_ids, layer_mask, time_stamp, stop_layer, ceil, k) ==
    IF k = 0 THEN parent_ids
    ELSE
      LET I == 1..Len(parent_ids)
          temp_ids == get_parents(tbl, { parent_ids[i] : i \in { j \in I : layer_mask[j] } },
                                  time_stamp)
          temp == [ i \in I |-> IF layer_mask[i] THEN temp_ids[parent_ids[i]]
                                ELSE parent_ids[i] ]
      IN IF temp_ids = <<>> THEN <<ErrId>>
         ELSE IF \A i \in I : get_chunk_layer(temp[i]) >= stop_layer
         THEN roots_done(temp, parent_ids, stop_layer, ceil)
         ELSE RootsLoop(tbl, temp,
                        [ i \in I |-> layer_mask[i] /\ get_chunk_layer(temp[i]) < stop_layer ],
                        time_stamp, stop_layer, ceil, k - 1)

\* graph/chunkedgraph.py get_roots with n_tries = 1; stop_layer 0 is None
get_roots(tbl, node_ids, time_stamp, stop_layer, ceil) ==
    LET stop == IF stop_layer = 0 THEN TopLayer ELSE stop_layer
    IN RootsLoop(tbl, node_ids,
                 [ i \in 1..Len(node_ids) |-> get_chunk_layer(node_ids[i]) < stop ],
                 time_stamp, stop, ceil, stop + 1)

(***************************************************************************)
(* Editing: find_unique_node_id, add_edge                                  *)
(***************************************************************************)
\* find_unique_node_id: (chunk_id << 32) + randint, redrawn while a row of that
\* id can be read; `seg` is the draw that is returned
find_unique_node_id_m(tbl, chunk_of, seg) == <<chunk_of[1] - 1, chunk_of[2], seg>>

find_unique_node_id(tbl, chunk_of, seg) == <<chunk_of[1], chunk_of[2], seg>>

IsNone(id) == id = NoId

AddEdgeFailed == [ ok |-> FALSE, rows |-> <<>>, ids |-> <<>>, orig |-> <<NoId, NoId>> ]

\* add_edge lines 540-545: up the hierarchy until the two parents share a chunk
RECURSIVE WalkUp(_, _, _, _)
WalkUp(tbl, p0, p1, t) ==
    IF {p0, p1} \cap {NoId, ErrId} # {} THEN <<ErrId, ErrId>>
    ELSE IF test_if_nodes_are_in_same_chunk(p0, p1) THEN <<p0, p1>>
    ELSE WalkUp(tbl, get_parent(tbl, p0, t), get_parent(tbl, p1, t), t)

\* add_edge lines 556-598: the loop that builds the new parents, one layer a turn;
\* circ is circumnvented_nodes, orig is original_parents
RECURSIVE MergeLoop(_, _, _, _, _, _, _, _, _)
MergeLoop(tbl, t, time_stamp, parent_ids, new_parent_id, circ, orig, pick, acc) ==
    IF ~acc.ok \/ IsNone(parent_ids[1]) \/ IsNone(parent_ids[2]) THEN acc
    ELSE IF \E k \in 1..2 : \/ parent_ids[k] \notin AllIds
                            \/ ~read_row(tbl, parent_ids[k]).haschildren
         THEN AddEdgeFailed
    ELSE
      LET child_ids(k) == SortIds(read_row(tbl, parent_ids[k]).children \ circ)
          ChildRows_(k) ==
              [ i \in 1..Len(child_ids(k)) |->
                  [ RowOf(child_ids(k)[i], time_stamp) EXCEPT !.parents = new_parent_id ] ]
          combined_child_ids ==
              (read_row(tbl, parent_ids[1]).children \cup read_row(tbl, parent_ids[2]).children)
                 \ circ
          nxt == << get_parent(tbl, parent_ids[1], t), get_parent(tbl, parent_ids[2], t) >>
          next_id == find_unique_node_id(tbl, nxt[1], pick[nxt[1][1]])
          val_row == [ RowOf(new_parent_id, 0) EXCEPT
                         !.setchildren = TRUE, !.children = combined_child_ids ]
          rows == acc.rows \o ChildRows_(1) \o ChildRows_(2)
      IN IF ErrId \in {nxt[1], nxt[2]} THEN AddEdgeFailed
         ELSE IF ~IsNone(nxt[1]) /\ ~IsNone(nxt[2])
         THEN IF read_row(tbl, next_id).exists THEN AddEdgeFailed
              ELSE MergeLoop(tbl, t, time_stamp, nxt, next_id, circ,
                             orig, pick,
                             [ acc EXCEPT
                                 !.rows = rows \o << [ val_row EXCEPT !.parents = next_id ] >>,
                                 !.ids = acc.ids \o <<next_id>> ])
         ELSE MergeLoop(tbl, t, time_stamp, nxt, new_parent_id, circ,
                        orig, pick,
                        [ acc EXCEPT
                            !.rows = rows \o
                              << [ RowOf(orig[1], 0) EXCEPT
                                     !.new_parents = new_parent_id ],
                                 [ RowOf(orig[2], 0) EXCEPT
                                     !.new_parents = new_parent_id ],
                                 [ val_row EXCEPT
                                     !.former_parents = { orig[1],
                                                          orig[2] } ] >> ])

\* add_edge up to, and without, line 607: the rows it collects, the ids it was
\* handed, the roots it resolved; pick[l] is the segment id drawn for layer l
add_edge(tbl, t, atomic_edge, pick) ==
    LET parent_ids == WalkUp(tbl, get_parent(tbl, atomic_edge[1], t),
                                  get_parent(tbl, atomic_edge[2], t), t)
    IN IF parent_ids[1] = ErrId THEN AddEdgeFailed
       ELSE
         LET original_parents == << get_root(tbl, parent_ids[1], t),
                                    get_root(tbl, parent_ids[2], t) >>
             new_parent_id == find_unique_node_id(tbl, parent_ids[1],
                                                  pick[parent_ids[1][1]])
         IN IF ErrId \in {original_parents[1], original_parents[2]}
               \/ read_row(tbl, new_parent_id).exists
            THEN AddEdgeFailed
            ELSE
              LET r == MergeLoop(tbl, t, t, parent_ids, new_parent_id,
                                 {parent_ids[1], parent_ids[2]}, original_parents, pick,
                                 [ ok |-> TRUE, rows |-> <<>>, ids |-> <<new_parent_id>>,
                                   orig |-> original_parents ])
              IN IF ~r.ok THEN AddEdgeFailed
                 ELSE [ r EXCEPT !.rows = r.rows \o
                          << [ RowOf(atomic_edge[1], t) EXCEPT !.partners = {atomic_edge[2]} ],
                             [ RowOf(atomic_edge[2], t) EXCEPT !.partners = {atomic_edge[1]} ] >> ]

InFlight(o) == ops[o].pc \in {"computed", "writing"}

\* something else happens to the table while an edit is between its reads and
\* the end of its writes
Overlaps(o) == \E q \in Ops : q # o /\ InFlight(q)

\* create_atomic_chunk: add_atomic_edges_in_chunks for the chunk at x
IngestAtomic(x) ==
    /\ x \notin gin.atomic
    /\ table' = mutate_rows(table,
                    add_atomic_edges_in_chunks(x, ChunkEdges(x), CrossEdges(x, gin.cross)),
                    now)
    /\ now' = now + 1
    /\ gin' = [ gin EXCEPT !.atomic = @ \cup {x} ]
    /\ ghist' = [ ghist EXCEPT !.overlap = @ \/ Overlaps(0) ]
    /\ UNCHANGED <<ops, varsI, varsL, varsE>>

\* create_parent_chunk: add_layer for the one chunk of the top layer, once its
\* child chunks are done
AddLayer ==
    /\ gin.atomic = ChunkXs
    /\ TopLayer \notin gin.layers
    /\ add_layer_ok(table, TopLayer, ChunkXs)
    /\ table' = mutate_rows(table, add_layer(table, TopLayer, ChunkXs), now)
    /\ now' = now + 1
    /\ gin' = [ gin EXCEPT !.layers = @ \cup {TopLayer} ]
    /\ ghist' = [ ghist EXCEPT !.overlap = @ \/ Overlaps(0) ]
    /\ UNCHANGED <<ops, varsI, varsL, varsE>>

\* get_subgraph_chunk: the atomic edges read from the atomic_partners cells
EdgesOf(tbl) ==
    { e \in Supervoxels \X Supervoxels :
        \E q \in read_row(tbl, e[1]).partners : q[1] = e[2] }

\* the root of every supervoxel, as get_root answers at time t
RootsOf(tbl, t) == [ n \in Supervoxels |-> get_root(tbl, n, t) ]

\* add_edge lines 527-605: everything the call reads, and the rows it prepares
AddEdgeRead(o) ==
    /\ ops[o].pc = "new"
    /\ \A q \in Ops : q < o => ops[q].pc # "new"
    /\ \E atomic_edge \in MergeInputs, pick \in [2..TopLayer -> 0..(MaxSeg - 1)] :
         LET r == add_edge(table, now, atomic_edge, pick)
         IN /\ r.ok
            /\ ops' = [ ops EXCEPT ![o] =
                 [ @ EXCEPT !.pc = "computed", !.edge = atomic_edge, !.ts = now,
                            !.rows = r.rows, !.ids = r.ids, !.orig = r.orig,
                            !.pre = << get_root(table, atomic_edge[1], now),
                                       get_root(table, atomic_edge[2], now) >>,
                            !.roots0 = RootsOf(table, now),
                            !.edges0 = EdgesOf(table) ] ]
            /\ ghist' = [ ghist EXCEPT
                 !.alloc = @ \cup { <<o, r.ids[i]>> : i \in 1..Len(r.ids) },
                 !.overlap = @ \/ Overlaps(o),
                 !.early = @ \/ ~(gin.atomic = ChunkXs /\ TopLayer \in gin.layers) ]
    /\ now' = now + 1
    /\ UNCHANGED <<table, gin, varsI, varsL, varsE>>

\* add_edge line 607: table.mutate_rows(rows), seen as one step
AddEdgeMutate(o) ==
    /\ ops[o].pc = "computed"
    /\ table' = mutate_rows(table, ops[o].rows, now)
    /\ now' = now + 1
    /\ ops' = [ ops EXCEPT ![o] = [ @ EXCEPT !.pc = "done", !.st = now,
                                             !.next = Len(ops[o].rows) + 1 ] ]
    /\ ghist' = [ ghist EXCEPT !.last = o ]
    /\ UNCHANGED <<gin, varsI, varsL, varsE>>

InitG ==
    /\ table = EmptyTable
    /\ now = 1
    /\ gin \in [ cross : BOOLEAN, atomic : {{}}, layers : {{}} ]
    /\ ops = [ o \in Ops |-> OpIdle ]
    /\ ghist = GhistIdle

NextGraph ==
    \/ \E x \in ChunkXs : IngestAtomic(x)
    \/ AddLayer
    \/ \E o \in Ops : AddEdgeRead(o)
    \/ \E o \in Ops : AddEdgeMutate(o)

\* the stored graph: ingest, then concurrent edits whose writes land at once
\* an empty table; the ingest scheduler and the locks are not in use
InitGraph == InitG /\ IdleI /\ IdleL /\ IdleE

SpecGraph == InitGraph /\ [][NextGraph]_vars

\* add_edge called while no other edit is under way
AddEdgeAlone(o) ==
    /\ ~Overlaps(o)
    /\ AddEdgeRead(o)

\* add_edge line 607, seen by a reader: mutate_rows applies the entries one by
\* one, here in the order of the list; the server stamps them at one time
MutateRow(o) ==
    /\ InFlight(o)
    /\ LET first == ops[o].pc = "computed"
           st == IF first THEN now ELSE ops[o].st
           i == ops[o].next
           last == i = Len(ops[o].rows)
       IN /\ table' = ApplyRow(table, ops[o].rows[i], st)
          /\ ops' = [ ops EXCEPT ![o] =
               [ @ EXCEPT !.pc = IF last THEN "done" ELSE "writing",
                          !.st = st, !.next = i + 1,
                          !.snap = IF last THEN EmptyTable
                                   ELSE IF first THEN table ELSE @ ] ]
          /\ now' = IF last THEN now + 1 ELSE now
          /\ ghist' = IF last THEN [ ghist EXCEPT !.last = o ] ELSE ghist
    /\ UNCHANGED <<gin, varsI, varsL, varsE>>

NextCommit ==
    \/ \E x \in ChunkXs : IngestAtomic(x)
    \/ AddLayer
    \/ \E o \in Ops : AddEdgeAlone(o)
    \/ \E o \in Ops : MutateRow(o)

\* the stored graph: ingest, then one edit at a time, its rows landing one by one
SpecCommit == InitGraph /\ [][NextCommit]_vars

(***************************************************************************)
(* Root locks: lock_root, lock_roots, renew_lock, unlock_root,             *)
(* lock_root_indefinitely                                                  *)
(***************************************************************************)
\* a lock column that holds a live lock: unexpired, or indefinite
Live(c) == c.op # 0 /\ (c.indef \/ c.expires >= ltime)

\* a lock that is given whatever the column holds
CanLock_m(c) == TRUE

\* lock_root succeeds iff there is no live lock
CanLock(c) == ~Live(c)

\* what operation o knows of root r: it took the lock, has not unlocked it, and
\* the expiry it was told has not passed
HoldsLive(o, r) ==
    /\ r \in lops[o].got
    /\ (r \in lops[o].indef \/ lops[o].exp[r] >= ltime)

\* the lock column says operation o holds a live lock on root r
LockedBy(r, o) == r \in DOMAIN lockcol /\ lockcol[r].op = o /\ Live(lockcol[r])

\* lock_roots(node_ids, operation_id) is called
StartLocks(o) ==
    /\ lops[o].pc = "created"
    /\ \E R \in SUBSET LockRoots \ {{}} :
         lops' = [ lops EXCEPT ![o] = [ @ EXCEPT !.pc = "locking", !.want = R ] ]
    /\ UNCHANGED <<lockcol, ltime, lhist, varsI, varsG, varsE>>

\* lock_root(node_id, operation_id), one root of lock_roots: the lock is recorded
\* with its expiry, or the call fails (LockFailed)
LockRoot(o, r) ==
    /\ lops[o].pc = "locking"
    /\ r \in lops[o].want \ lops[o].got
    /\ LET ok == CanLock(lockcol[r])
           free == ~\E q \in Ops : q # o /\ HoldsLive(q, r)
       IN /\ lhist' = lhist \cup { [ op |-> o, root |-> r, ok |-> ok, free |-> free ] }
          /\ IF ok
             THEN /\ lockcol' = [ lockcol EXCEPT ![r] =
                        [ op |-> o, expires |-> ltime + LockTTL, indef |-> FALSE ] ]
                  /\ lops' = [ lops EXCEPT ![o] =
                        [ @ EXCEPT !.got = @ \cup {r},
                                   !.exp[r] = ltime + LockTTL,
                                   !.pc = IF lops[o].got \cup {r} = lops[o].want
                                          THEN "locked" ELSE "locking" ] ]
             ELSE /\ lops' = [ lops EXCEPT ![o] = [ @ EXCEPT !.pc = "failed" ] ]
                  /\ UNCHANGED lockcol
    /\ UNCHANGED <<ltime, varsI, varsG, varsE>>

\* renew_lock: the expiry is extended, unless the holder changed (LockLost)
RenewLock(o, r) ==
    /\ lops[o].pc = "locked"
    /\ r \in lops[o].got
    /\ IF lockcol[r].op = o
       THEN /\ lockcol' = [ lockcol EXCEPT ![r].expires = ltime + LockTTL ]
            /\ lops' = [ lops EXCEPT ![o].exp[r] = ltime + LockTTL ]
       ELSE /\ lops' = [ lops EXCEPT ![o].exp[r] = NoExpiry ]
            /\ UNCHANGED lockcol
    /\ UNCHANGED <<ltime, lhist, varsI, varsG, varsE>>

\* unlock_root: the lock is removed only if the holder matches; also the release
\* of the locks taken by a lock_roots call that failed
UnlockRoot(o, r) ==
    /\ lops[o].pc \in {"locked", "failed"}
    /\ r \in lops[o].got \ lops[o].indef
    /\ lockcol' = IF lockcol[r].op = o THEN [ lockcol EXCEPT ![r] = NoLock ] ELSE lockcol
    /\ lops' = [ lops EXCEPT ![o] =
           [ @ EXCEPT !.got = @ \ {r}, !.exp[r] = NoExpiry,
                      !.pc = IF lops[o].got \ {r} # {} THEN @
                             ELSE IF @ = "locked" THEN "unlocked" ELSE "lockfailed" ] ]
    /\ UNCHANGED <<ltime, lhist, varsI, varsG, varsE>>

\* lock_root_indefinitely: a held lock is escalated, no expiry applies any more
LockIndefinitely(o, r) ==
    /\ lops[o].pc = "locked"
    /\ r \in lops[o].got \ lops[o].indef
    /\ IF lockcol[r].op = o
       THEN /\ lockcol' = [ lockcol EXCEPT ![r].indef = TRUE ]
            /\ lops' = [ lops EXCEPT ![o].indef = @ \cup {r} ]
       ELSE /\ lops' = [ lops EXCEPT ![o].exp[r] = NoExpiry ]
            /\ UNCHANGED lockcol
    /\ UNCHANGED <<ltime, lhist, varsI, varsG, varsE>>

\* time passes
Tick ==
    /\ ltime < MaxTime
    /\ ltime' = ltime + 1
    /\ UNCHANGED <<lockcol, lops, lhist, varsI, varsG, varsE>>

NextLock ==
    \/ Tick
    \/ \E o \in Ops : StartLocks(o)
    \/ \E o \in Ops, r \in LockRoots : LockRoot(o, r)
    \/ \E o \in Ops, r \in LockRoots : RenewLock(o, r)
    \/ \E o \in Ops, r \in LockRoots : UnlockRoot(o, r)
    \/ \E o \in Ops, r \in LockRoots : LockIndefinitely(o, r)

\* the lock manager on its own
\* no lock is held; scheduler and table are not in use
InitLock == IdleL /\ IdleI /\ IdleG /\ IdleE

SpecLock == InitLock /\ [][NextLock]_vars

(***************************************************************************)
(* The graph object after add_edges / remove_edges: the cache stays set    *)
(***************************************************************************)
\* add_edges lines 516-517, remove_edges lines 560-561: self.cache =
\* CacheService(self); the object is used for reads afterwards
InstallCache ==
    /\ ~rd.cache
    /\ rd' = [ rd EXCEPT !.cache = TRUE ]
    /\ UNCHANGED <<eng, rep, job, varsI, varsG, varsL>>

NextCache ==
    \/ NextGraph
    \/ InstallCache

SpecCache == InitGraph /\ [][NextCache]_vars

(***************************************************************************)
(* get_root with n_tries, read by read, while the graph is being written   *)
(***************************************************************************)
MaxTries == 2       \* n_tries is drawn from 0..MaxTries

\* get_root lines 403-412 with the final test left out
get_root_end_m(parent_id, stop_layer) == "returned"

\* get_root lines 403-412: RootNotFound if the last parent_id is below stop_layer
get_root_end(parent_id, stop_layer) ==
    IF get_chunk_layer(parent_id) < stop_layer THEN "raised" ELSE "returned"

\* get_root lines 381-386: the call, with its time stamp fixed for all the tries
GetRootCall ==
    /\ rd.pc = "idle"
    /\ \E node_id \in DOMAIN table, stop_layer \in 0..TopLayer,
          n_tries \in 0..MaxTries, time_stamp \in now..(MaxTime + 1) :
         LET stop == IF stop_layer = 0 THEN TopLayer ELSE stop_layer
             same == get_chunk_layer(node_id) = stop
         IN rd' = [ rd EXCEPT
                      !.pc = IF same THEN "returned" ELSE "try",
                      !.node = node_id, !.ts = time_stamp, !.stop = stop,
                      !.n_tries = n_tries, !.left = n_tries,
                      !.parent = node_id,
                      !.res = IF same THEN node_id ELSE NoId ]
    /\ UNCHANGED <<eng, rep, job, varsI, varsG, varsL>>

\* get_root line 388 and lines 403-412: the next try starts, or none is left
GetRootTry ==
    /\ rd.pc = "try"
    /\ rd' = IF rd.left = 0
             THEN [ rd EXCEPT
                      !.pc = get_root_end(rd.parent, rd.stop),
                      !.res = IF get_root_end(rd.parent, rd.stop) = "returned"
                              THEN rd.parent ELSE NoId ]
             ELSE [ rd EXCEPT
                      !.pc = "walk", !.left = @ - 1, !.walks = @ + 1,
                      !.parent = rd.node, !.i = get_chunk_layer(rd.node) ]
    /\ UNCHANGED <<eng, rep, job, varsI, varsG, varsL>>

\* get_root lines 390-402: one turn of the inner loop, one get_parent; at its end
\* the walk either leaves the outer loop or sleeps before the next try
GetRootWalk ==
    /\ rd.pc = "walk"
    /\ LET temp_parent_id ==
               IF rd.i > rd.stop THEN NoId
               ELSE graph_get_parent(table, rd.parent, rd.ts)
           parent_id == IF temp_parent_id = NoId THEN rd.parent ELSE temp_parent_id
           over == \/ temp_parent_id = NoId
                   \/ get_chunk_layer(parent_id) >= rd.stop
           found == get_chunk_layer(parent_id) >= rd.stop
       IN rd' = [ rd EXCEPT
                    !.parent = parent_id,
                    !.i = @ + 1,
                    !.hit = IF over /\ found /\ rd.hit = NoId THEN parent_id ELSE @,
                    !.left = IF over /\ found THEN 0 ELSE @,
                    !.pc = IF over THEN "try" ELSE "walk" ]
    /\ UNCHANGED <<eng, rep, job, varsI, varsG, varsL>>

NextRetry ==
    \/ \E x \in ChunkXs : IngestAtomic(x)
    \/ AddLayer
    \/ GetRootCall
    \/ GetRootTry
    \/ GetRootWalk

SpecRetry == InitGraph /\ [][NextRetry]_vars

(***************************************************************************)
(* Commit failure and the repair job: _repair_failed_operations            *)
(***************************************************************************)
\* the guard of a write: every root is still locked by the operation
GuardHolds(o) == \A r \in lops[o].got : LockedBy(r, o)

Committed(o) == \E c \in rep.commits : c.op = o

\* the mutations of operation o are written under its locks
CommitOk(o) ==
    /\ lops[o].pc = "locked"
    /\ ~Committed(o)
    /\ GuardHolds(o)
    /\ rep' = [ rep EXCEPT !.commits = @ \cup { [ op |-> o, roots |-> lops[o].got ] } ]
    /\ UNCHANGED <<eng, rd, job, varsI, varsG, varsL>>

\* a lock was lost between read and commit: nothing is written, the operation
\* goes on to release what it holds
CommitLost(o) ==
    /\ lops[o].pc = "locked"
    /\ ~Committed(o)
    /\ ~GuardHolds(o)
    /\ lops' = [ lops EXCEPT ![o].pc = "failed" ]
    /\ UNCHANGED <<lockcol, ltime, lhist, varsI, varsG, varsE>>

\* the commit fails after it was started: the locks are escalated to indefinite
\* and the log is marked failed
CommitFails(o) ==
    /\ lops[o].pc = "locked"
    /\ ~Committed(o)
    /\ GuardHolds(o)
    /\ lockcol' = [ r \in LockRoots |->
                      IF r \in lops[o].got THEN [ lockcol[r] EXCEPT !.indef = TRUE ]
                      ELSE lockcol[r] ]
    /\ lops' = [ lops EXCEPT ![o] = [ @ EXCEPT !.pc = "commitfailed", !.indef = lops[o].got ] ]
    /\ rep' = [ rep EXCEPT !.flog = @ \cup {o}, !.failed = @ \cup {o},
                           !.roots[o] = lops[o].got ]
    /\ UNCHANGED <<ltime, lhist, eng, rd, job, varsI, varsG>>

\* unlock_indefinitely_locked_root: removed only if the holder matches
unlock_indefinitely_locked_root(col, node_id, operation_id) ==
    IF col[node_id].indef /\ col[node_id].op = operation_id
    THEN [ col EXCEPT ![node_id] = NoLock ] ELSE col

\* _repair_failed_operations line 58: the next log of the query is fetched
RepairFetch ==
    /\ rep.pc = "idle"
    /\ \E log \in rep.flog :
         rep' = [ rep EXCEPT !.pc = "exec", !.cur = log ]
    /\ UNCHANGED <<eng, rd, job, varsI, varsG, varsL>>

\* where _repair_operation goes after operation.execute: on, or out by the exception
after_execute_m(returned) == "unlock"

after_execute(returned) == IF returned THEN "unlock" ELSE "raised"

\* _repair_operation lines 13-23: the operation is executed again; old_roots are
\* the roots it was logged with
RepairExecute ==
    /\ rep.pc = "exec"
    /\ \E returned \in BOOLEAN :
         rep' = [ rep EXCEPT
                    !.pc = after_execute(returned),
                    !.todo = IF after_execute(returned) = "unlock"
                             THEN rep.roots[rep.cur] ELSE {},
                    !.executed = IF returned THEN @ \cup {rep.cur} ELSE @,
                    !.raised = IF returned THEN @ ELSE @ \cup {rep.cur} ]
    /\ UNCHANGED <<eng, rd, job, varsI, varsG, varsL>>

\* _repair_operation lines 26-27: one turn of the loop over old_roots
RepairUnlock ==
    /\ rep.pc = "unlock"
    /\ \E root_ \in rep.todo :
         /\ lockcol' = unlock_indefinitely_locked_root(lockcol, root_, rep.cur)
         /\ rep' = [ rep EXCEPT !.todo = @ \ {root_} ]
    /\ UNCHANGED <<ltime, lops, lhist, eng, rd, job, varsI, varsG>>

\* _repair_failed_operations line 61: the log entry is deleted, the loop goes on
RepairDelete ==
    /\ rep.pc = "unlock"
    /\ rep.todo = {}
    /\ rep' = [ rep EXCEPT !.flog = @ \ {rep.cur}, !.pc = "idle", !.cur = 0 ]
    /\ UNCHANGED <<eng, rd, job, varsI, varsG, varsL>>

\* the job that ended with the exception is run again
RepairAgain ==
    /\ rep.pc = "raised"
    /\ rep' = [ rep EXCEPT !.pc = "idle", !.cur = 0 ]
    /\ UNCHANGED <<eng, rd, job, varsI, varsG, varsL>>

\* the operations of a repair scenario: one that may fail, and one other
RepairOps == {1, 2}

NextRepair ==
    \/ Tick
    \/ \E o \in RepairOps : StartLocks(o)
    \/ \E o \in RepairOps, r \in LockRoots : LockRoot(o, r)
    \/ \E o \in RepairOps, r \in LockRoots : RenewLock(o, r)
    \/ \E o \in RepairOps, r \in LockRoots : UnlockRoot(o, r)
    \/ \E o \in RepairOps : CommitOk(o)
    \/ \E o \in RepairOps : CommitLost(o)
    \/ \E o \in RepairOps : CommitFails(o)
    \/ RepairFetch
    \/ RepairExecute
    \/ RepairUnlock
    \/ RepairDelete
    \/ RepairAgain

SpecRepair == InitLock /\ [][NextRepair]_vars

(***************************************************************************)
(* Claims about the ingest scheduler                                       *)
(***************************************************************************)
InPlay(t) ==
    \/ \E i \in 1..Len(task_q) : task_q[i] = t
    \/ \E w \in Workers : wk[w].pc = "run" /\ wk[w].task = t

InSection(w) == wk[w].pc \in {"check", "init", "get", "set", "test", "del", "put"}

Quiescent == ~ENABLED NextIngest

\* C2: a parent chunk task is on the queue, or running, or was ever queued, only
\* after the task of every one of its child chunks has completed successfully.
C2_ParentAfterChildren ==
    \A p \in ParentTasks :
        (hist.enq[p] > 0 \/ InPlay(p)) =>
            \A c \in children_coords(p) : hist.completed[c] >= 1

\* C2 witness: with two workers and a failed, requeued task behind it, the top
\* layer's task has been queued.
C2_Witness ==
    /\ icfg.n_workers >= 2
    /\ hist.fails >= 1
    /\ hist.enq[<<layer_count, 0>>] >= 1

\* C3: every parent chunk's build task completes successfully exactly once: never
\* twice, and once the run has come to rest it has completed.
C3_ExactlyOnce ==
    icfg.build_graph =>
        \A p \in ParentTasks :
            /\ hist.completed[p] <= 1
            /\ Quiescent => hist.completed[p] = 1

\* C4: at most one worker at a time is inside the check-initialise-decrement
\* section of a parent id, and the remaining-children counter of every pending
\* parent equals its number of children minus the decrements made for it.
C4_CounterExact ==
    /\ \A w1, w2 \in Workers :
          (w1 # w2 /\ InSection(w1) /\ InSection(w2)) => ParentOf(w1) # ParentOf(w2)
    /\ \A p \in ParentTasks :
          counts[p] # NoKey => counts[p] = Cardinality(children_coords(p)) - hist.decs[p]

(***************************************************************************)
(* Claims about the stored graph                                           *)
(***************************************************************************)
\* the atomic edges that are active: every partner cell written so far
ActiveEdges ==
    { e \in Supervoxels \X Supervoxels : \E q \in read_row(table, e[1]).partners : q[1] = e[2] }

Connected(u, v) == v \in Grow({u}, Supervoxels, ActiveEdges)

IngestDone == gin.atomic = ChunkXs /\ TopLayer \in gin.layers

\* the ingest steps and edits so far ran one after the other, none is under way
Sequential == ~ghist.overlap /\ \A o \in Ops : ~InFlight(o)

\* every edit so far was made on the fully ingested graph
OnBuiltGraph == ~ghist.early

\* C1: once the graph is ingested, after any sequence of ingest steps and merges
\* run one after the other, two supervoxels have the same root exactly when a path
\* of active atomic edges connects them.
C1_RootIffConnected ==
    (IngestDone /\ Sequential) =>
        \A u \in Supervoxels, v \in Supervoxels :
            (graph_get_root(table, u, now, TopLayer) = graph_get_root(table, v, now, TopLayer))
                <=> Connected(u, v)

\* C9: no node id is handed out twice: an id that find_unique_node_id returned to
\* one operation is never returned to another, written or not.
C9_IdsUnique ==
    OnBuiltGraph =>
        \A p \in ghist.alloc, q \in ghist.alloc : p[2] = q[2] => p[1] = q[1]

\* C10: right after a merge(u, v) that ran alone and found u and v under different
\* roots R1 and R2 has committed, u and v have one root R3, R3 is an id handed out
\* to this merge and is neither R1 nor R2, and R1 and R2 carry new_parents = [R3].
C10_MergeNewRoot ==
    \A o \in Ops :
        (ops[o].pc = "done" /\ ghist.last = o /\ Sequential /\ OnBuiltGraph
           /\ ops[o].pre[1] # ops[o].pre[2]) =>
        LET R3 == get_root(table, ops[o].edge[1], now)
        IN /\ R3 = get_root(table, ops[o].edge[2], now)
           /\ R3 \notin {ops[o].pre[1], ops[o].pre[2]}
           /\ \E i \in 1..Len(ops[o].ids) : ops[o].ids[i] = R3
           /\ read_row(table, ops[o].pre[1]).new_parents = {R3}
           /\ read_row(table, ops[o].pre[2]).new_parents = {R3}

\* what a reader is answered at this moment: the root of every supervoxel and the
\* children of every node, ErrId where the read raises
ReadView(tbl) ==
    [ roots |-> [ n \in Supervoxels |-> get_root(tbl, n, now) ],
      children |-> [ n \in AllIds |-> IF read_row(tbl, n).haschildren THEN read_row(tbl, n).children ELSE {} ] ]

\* the time stamp the cells of a row object carry in the table
StampOf(o, i) == IF ops[o].rows[i].ts = 0 THEN ops[o].st ELSE ops[o].rows[i].ts

\* C8: while an edit's rows are being applied, a reader is answered as before the
\* edit or as after all of it, and all cells the edit writes carry one time stamp.
C8_AtomicToReaders ==
    \A o \in Ops :
        (ops[o].pc = "writing" /\ OnBuiltGraph) =>
            /\ ReadView(table) \in
                  { ReadView(ops[o].snap),
                    ReadView(mutate_rows(ops[o].snap, ops[o].rows, ops[o].st)) }
            /\ \A i \in 1..Len(ops[o].rows), j \in 1..Len(ops[o].rows) :
                  StampOf(o, i) = StampOf(o, j)

\* C5: no two merges that commit have both computed their new hierarchy from the
\* same pre-edit root: of two merges that share a root, the later one resolved its
\* roots after the earlier one had committed.
C5_OneCommitPerRoot ==
    \A o \in Ops, q \in Ops :
        (o # q /\ ops[o].pc = "done" /\ ops[q].pc = "done" /\ OnBuiltGraph) =>
            {ops[o].orig[1], ops[o].orig[2]} \cap {ops[q].orig[1], ops[q].orig[2]} = {}

C7_WritesUnderLock ==
    [][ \A o \in Ops :
          (InFlight(o) /\ table' # table /\ ops'[o] # ops[o] /\ OnBuiltGraph) =>
              /\ LockedBy(ops[o].orig[1], o)
              /\ LockedBy(ops[o].orig[2], o) ]_vars


(***************************************************************************)
(* Claims about merges inside one root                                     *)
(***************************************************************************)
\* C11: right after a merge(u, v) that ran alone and found u and v under one root
\* has committed, every supervoxel has the root it had before the merge, and the
\* atomic edge set is the one before the merge with the edge u-v in it.
C11_SameRootNoNewRoot ==
    \A o \in Ops :
        (ops[o].pc = "done" /\ ghist.last = o /\ Sequential /\ OnBuiltGraph
           /\ ops[o].pre[1] = ops[o].pre[2]) =>
        /\ RootsOf(table, now) = ops[o].roots0
        /\ EdgesOf(table) = ops[o].edges0
              \cup { ops[o].edge, <<ops[o].edge[2], ops[o].edge[1]>> }


(***************************************************************************)
(* Edit operations: merge, split and undo over the operation log           *)
(***************************************************************************)
MaxEdits == 3       \* operations logged in one run

\* atomic edges of the ingested supervoxel graph, any subset of them is a dataset
EngIngestEdges == { <<a1, a2>>, <<b1, b2>>, <<t1, t2>>, <<a2, b1>> }

\* the edges merges are asked for
EngMergeInputs == MergeInputs \cup { <<b1, b2>>, <<a2, t2>> }

\* the number of the component of `comps` that holds n
RECURSIVE CompIndex(_, _, _)
CompIndex(comps, n, i) ==
    IF i > Len(comps) THEN 0
    ELSE IF n \in comps[i] THEN i ELSE CompIndex(comps, n, i + 1)

\* ingest: one root per connected component
EngIngest(E) ==
    LET comps == connected_components(Supervoxels, E)
    IN [ edges |-> E, root |-> [ n \in Supervoxels |-> CompIndex(comps, n, 1) ],
         next |-> Len(comps) + 1 ]

\* Merge: the edges are added; two components that are joined get one new root
RECURSIVE EngMerge(_, _)
EngMerge(s, es) ==
    IF es = {} THEN s
    ELSE LET e == CHOOSE x \in es : TRUE
             ru == s.root[e[1]]
             rv == s.root[e[2]]
             joined ==
                 IF ru = rv THEN [ s EXCEPT !.edges = @ \cup {e} ]
                 ELSE [ edges |-> s.edges \cup {e},
                        root |-> [ n \in Supervoxels |->
                                     IF s.root[n] \in {ru, rv} THEN s.next ELSE s.root[n] ],
                        next |-> s.next + 1 ]
         IN EngMerge(joined, es \ {e})

\* the roots a split allocates: one per component of every affected root
EngSplitRoots_m(s, N, E) == [ n \in N |-> s.next ]

EngSplitRoots(s, N, E) ==
    LET comps == connected_components(N, E)
    IN [ n \in N |-> s.next + CompIndex(comps, n, 1) - 1 ]

\* Split: the edges are removed, the components of the affected roots are
\* recomputed and each gets a new root
EngSplit(s, R) ==
    LET E == s.edges \ (R \cup { <<e[2], e[1]>> : e \in R })
        affected == { s.root[e[1]] : e \in R } \cup { s.root[e[2]] : e \in R }
        N == { n \in Supervoxels : s.root[n] \in affected }
        new == EngSplitRoots(s, N, E)
    IN [ edges |-> E,
         root |-> [ n \in Supervoxels |-> IF n \in N THEN new[n] ELSE s.root[n] ],
         next |-> s.next + Cardinality({ new[n] : n \in N }) ]

EngState == [ edges |-> eng.edges, root |-> eng.root, next |-> eng.next ]

\* add_edges: the cache is installed, a merge operation is built, executed and
\* logged
add_edges ==
    /\ Len(eng.log) < MaxEdits
    /\ \E e \in EngMergeInputs :
         LET r == EngMerge(EngState, {e})
         IN eng' = [ edges |-> r.edges, root |-> r.root, next |-> r.next,
                     log |-> Append(eng.log, [ kind |-> "merge", edges |-> {e} ]),
                     pre |-> [ root |-> eng.root, edges |-> eng.edges, e |-> e ],
                     last |-> [ kind |-> "merge", op |-> Len(eng.log) + 1, imm |-> FALSE ] ]
    /\ rd' = [ rd EXCEPT !.cache = TRUE ]
    /\ UNCHANGED <<rep, job, varsI, varsG, varsL>>

\* undo_operation: the inverse of the logged operation is executed and logged
undo_operation ==
    /\ Len(eng.log) < MaxEdits
    /\ \E operation_id \in 1..Len(eng.log) :
         LET entry == eng.log[operation_id]
             r == IF entry.kind = "merge" THEN EngSplit(EngState, entry.edges)
                  ELSE EngMerge(EngState, entry.edges)
         IN eng' = [ eng EXCEPT
                       !.edges = r.edges, !.root = r.root, !.next = r.next,
                       !.log = Append(@, [ kind |-> IF entry.kind = "merge" THEN "split"
                                                    ELSE "merge",
                                           edges |-> entry.edges ]),
                       !.last = [ kind |-> "undo", op |-> operation_id,
                                  imm |-> eng.last.kind = "merge"
                                            /\ eng.last.op = operation_id ] ]
    /\ UNCHANGED <<rep, rd, job, varsI, varsG, varsL>>

\* the ingested graph the operations start from
InitE ==
    \E E \in SUBSET EngIngestEdges :
        LET r == EngIngest(E)
        IN eng = [ EngIdle EXCEPT !.edges = r.edges, !.root = r.root, !.next = r.next ]

NextEdit ==
    \/ add_edges
    \/ undo_operation

InitEdit == InitE /\ IdleRep /\ IdleRd /\ IdleJob /\ IdleI /\ IdleG /\ IdleL

SpecEdit == InitEdit /\ [][NextEdit]_vars

(***************************************************************************)
(* Claims about undo                                                       *)
(***************************************************************************)
UndoneAtOnce == eng.last.kind = "undo" /\ eng.last.imm

ChunkAbove(n, layer) ==
    n[2] \div Pow(FANOUT, layer - (IF n[1] < 2 THEN 2 ELSE n[1]))

\* the node k current parents above n, NoId past the top
RECURSIVE Up(_, _, _)
Up(tbl, n, k) ==
    IF k = 0 \/ n = NoId THEN n ELSE Up(tbl, CurrentParent(tbl, n), k - 1)

HeldForRepair(o, r) == lockcol[r].indef /\ lockcol[r].op = o

C15_ReadsAtTsStable ==
    [][ OnBuiltGraph' =>
          \A n \in DOMAIN table, ts \in 1..(now - 1) :
              /\ graph_get_parent(table', n, ts) = graph_get_parent(table, n, ts)
              /\ graph_get_root(table', n, ts, TopLayer)
                    = graph_get_root(table, n, ts, TopLayer) ]_vars


\* C16: in every state of the graph object, get_parent(id, time_stamp = ts) is the
\* value of the newest parents cell of id dated ts or earlier, and None when there
\* is no such cell.
C16_ParentNewestUpTo ==
    \A n \in DOMAIN table, ts \in 1..now :
        LET cells == read_row(table, n).parents
            upto == { i \in 1..Len(cells) : cells[i][2] <= ts }
        IN graph_get_parent(table, n, ts) =
              IF upto = {} THEN NoId
              ELSE cells[CHOOSE i \in upto : \A j \in upto : i <= j][1]


(***************************************************************************)
(* Claims about get_root and get_roots                                     *)
(***************************************************************************)
\* C17: get_root(id, stop_layer) is the first node on the chain of current parents
\* of id, id included, that has layer stop_layer or more; with stop_layer left out
\* it is the first node of the top layer.
C17_RootIsFirstAtStopLayer ==
    \A n \in DOMAIN table, stop_layer \in 0..TopLayer :
        LET stop == IF stop_layer = 0 THEN TopLayer ELSE stop_layer
            ks == { k \in 0..TopLayer : /\ Up(table, n, k) # NoId
                                       /\ get_chunk_layer(Up(table, n, k)) >= stop }
        IN ks # {} =>
             graph_get_root(table, n, now, stop_layer)
                = Up(table, n, CHOOSE k \in ks : \A j \in ks : k <= j)

\* after a merge across chunks, on an object with a cache: the root of a1 at stop
\* layer 2 is its layer-2 node, and with stop_layer left out it is the root the
\* merge allocated, two parents up
C17_Witness ==
    /\ rd.cache /\ IngestDone
    /\ \E o \in Ops : ops[o].pc = "done" /\ ops[o].edge = <<a1, t1>>
    /\ get_chunk_layer(graph_get_root(table, a1, now, 2)) = 2
    /\ graph_get_root(table, a1, now, 0) \in { q[2] : q \in ghist.alloc }
    /\ graph_get_root(table, a1, now, 0) = Up(table, a1, 2)


\* C18: get_root makes at most n_tries walks; when one of them reaches stop_layer,
\* what that walk found is returned, also after walks that ended on a missing
\* parent; when none does, the call fails with RootNotFound after n_tries walks;
\* no node below stop_layer is ever returned.
C18_RetriesThenRootNotFound ==
    /\ rd.walks <= rd.n_tries
    /\ rd.pc = "returned" => get_chunk_layer(rd.res) >= rd.stop
    /\ (rd.pc \in {"returned", "raised"} /\ rd.hit # NoId) =>
           rd.pc = "returned" /\ rd.res = rd.hit
    /\ (rd.pc \in {"returned", "raised"} /\ rd.hit = NoId
          /\ get_chunk_layer(rd.node) < rd.stop) =>
           rd.pc = "raised" /\ rd.walks = rd.n_tries

\* the first walk from a supervoxel ended below the top layer on a node without
\* parent, the layer above was written meanwhile, the second walk found the root
C18_Witness ==
    /\ rd.pc = "returned" /\ rd.walks = 2 /\ rd.hit # NoId
    /\ get_chunk_layer(rd.node) = 1 /\ rd.stop = TopLayer
    /\ rd.res = Up(table, rd.node, 2)


\* the ids get_roots is asked for: one node, or the supervoxel a1 and one node
RootsInputs == { <<n>> : n \in DOMAIN table } \cup { <<a1, n>> : n \in DOMAIN table }

\* every id asked for lies below stop_layer, and its chain of current parents
\* reaches stop_layer
RootsReachable(node_ids, stop_layer) ==
    \A i \in 1..Len(node_ids) :
        /\ get_chunk_layer(node_ids[i]) < stop_layer
        /\ \E k \in 1..TopLayer : get_chunk_layer(Up(table, node_ids[i], k)) >= stop_layer

MaxSubNodes == 3    \* layer-2 nodes of the root that is read

\* layer-2 chunks of the volume along x and y
SubXs == 0..7
SubYs == 0..1
SubChunks == SubXs \X SubYs

\* layer_count: the first layer at which one chunk holds the whole volume
SubTop ==
    CHOOSE l \in 2..10 :
        /\ FANOUT^(l - 2) >= Cardinality(SubXs)
        /\ \A k \in 2..(l - 1) : FANOUT^(k - 2) < Cardinality(SubXs)

\* the chunk k layers above chunk c: floor(x / F^k), floor(y / F^k)
Coarsen(c, k) ==
    IF Len(c) = 2 THEN << c[1] \div (FANOUT^k), c[2] \div (FANOUT^k) >>
    ELSE << c[1] \div (FANOUT^k), c[2] \div (FANOUT^k), c[3] \div (FANOUT^k) >>

\* the nodes over the layer-2 chunks S: one node per occupied chunk of each
\* layer; with skip connections a node between layer 2 and the root is left
\* out when it would have one child
SubNodes(S, skip) ==
    { n \in { <<l, Coarsen(d, l - 2), 1>> : l \in 2..SubTop, d \in S } :
        \/ n[1] \in {2, SubTop}
        \/ ~skip
        \/ Cardinality({ Coarsen(d, n[1] - 3) :
                           d \in { e \in S : Coarsen(e, n[1] - 2) = n[2] } }) > 1 }

\* n lies in the chunk subtree of p
ChunkBelow(n, p) == n[1] < p[1] /\ Coarsen(n[2], p[1] - n[1]) = p[2]

\* the rows of the hierarchy: a node is the child of the lowest node above it
SubTable(S, skip) ==
    LET N == SubNodes(S, skip)
        kids(p) == { n \in N : /\ ChunkBelow(n, p)
                               /\ ~ \E q \in N : ChunkBelow(n, q) /\ ChunkBelow(q, p) }
    IN [ p \in N |->
           [ EmptyRow EXCEPT
               !.exists = TRUE,
               !.parents = IF p[1] = SubTop THEN <<>>
                           ELSE << << CHOOSE q \in N : p \in kids(q), 1 >> >>,
               !.haschildren = p[1] > 2,
               !.children = kids(p) ] ]

SubRoot == <<SubTop, <<0, 0>>, 1>>

\* get_children(node_ids, flatten=True)
get_children(tbl, node_ids) == UNION { read_row(tbl, n).children : n \in node_ids }

\* the test with the box of layer 2, not rescaled
bound_check_m(chunk_coords, child_layers, bounding_box) ==
    /\ \A a \in 1..2 : chunk_coords[a] < bounding_box[2][a]
    /\ \A a \in 1..2 : chunk_coords[a] + 1 > bounding_box[1][a]

\* bound_check of one child: chunk_coords < bbox[1] / F^k and
\* chunk_coords + 1 > bbox[0] / F^k on every axis; the float quotient by a
\* power of two is exact, so the test is the one on the products
bound_check(chunk_coords, child_layers, bounding_box) ==
    /\ \A a \in 1..2 : chunk_coords[a] * FANOUT^child_layers < bounding_box[2][a]
    /\ \A a \in 1..2 : (chunk_coords[a] + 1) * FANOUT^child_layers > bounding_box[1][a]

\* _get_subgraph_higher_layer_nodes_thread: the children of node_ids that pass
\* the bound check of their own layer
get_subgraph_higher_layer_nodes_thread(tbl, node_ids, bounding_box) ==
    { c \in get_children(tbl, node_ids) :
        LET child_layers == IF get_chunk_layer(c) - 2 < 0 THEN 0 ELSE get_chunk_layer(c) - 2
        IN bound_check(c[2], child_layers, bounding_box) }

\* while layer > stop_layer: the ids of this layer are replaced by their
\* children, the ids of lower layers are carried along
RECURSIVE SubgraphLoop(_, _, _, _)
SubgraphLoop(tbl, child_ids, layer, bounding_box) ==
    IF layer > 2
    THEN LET this_layer_child_ids == { c \in child_ids : get_chunk_layer(c) = layer }
             next_layer_child_ids == child_ids \ this_layer_child_ids
         IN SubgraphLoop(tbl,
                get_subgraph_higher_layer_nodes_thread(tbl, this_layer_child_ids, bounding_box)
                    \cup next_layer_child_ids,
                layer - 1, bounding_box)
    ELSE child_ids

\* _get_subgraph_higher_layer_nodes(node_id, bounding_box, return_layers)[2]
\* with return_layers = range(2, layer_count), as get_subgraph calls it
get_subgraph_higher_layer_nodes(tbl, node_id, bounding_box) ==
    SubgraphLoop(tbl, {node_id}, get_chunk_layer(node_id), bounding_box)

\* get_subgraph([root], bbox, nodes_only=True) on the graph that was read
GetSubgraph ==
    /\ rd.pc = "idle"
    /\ \E lo \in SubChunks, last \in SubChunks :
          /\ lo[1] <= last[1] /\ lo[2] <= last[2]
          /\ LET bbox == << lo, << last[1] + 1, last[2] + 1 >> >>
             IN rd' = [ rd EXCEPT
                          !.pc = "subgraph", !.node = SubRoot, !.box = bbox,
                          !.sub = get_subgraph_higher_layer_nodes(table, SubRoot, bbox) ]
    /\ UNCHANGED <<varsI, varsG, varsL, eng, rep, job>>

InitSub ==
    /\ \E S \in SUBSET SubChunks, skip \in BOOLEAN :
          /\ Cardinality(S) \in 1..MaxSubNodes
          /\ table = SubTable(S, skip)
    /\ now = 1
    /\ gin = [ cross |-> FALSE, atomic |-> {}, layers |-> {} ]
    /\ ops = [ o \in Ops |-> OpIdle ]
    /\ ghist = GhistIdle
    /\ IdleI /\ IdleL /\ IdleE

NextSub == GetSubgraph

SpecSub == InitSub /\ [][NextSub]_vars

(***************************************************************************)
(* Claims about get_subgraph                                               *)
(***************************************************************************)
\* the nodes reached from n through the children column
RECURSIVE Descendants(_, _)
Descendants(tbl, n) ==
    {n} \cup UNION { Descendants(tbl, c) : c \in read_row(tbl, n).children }

\* C20: the layer-2 nodes get_subgraph yields for a root and a box are
\* exactly the layer-2 descendants of the root whose chunk coordinates c
\* satisfy lo <= c < hi on every axis; no pruning at a higher layer loses
\* one of them, skip-connection children included
C20_SubgraphIsBoxedDescendants ==
    rd.pc = "subgraph" =>
        rd.sub = { n \in Descendants(table, rd.node) :
                     /\ get_chunk_layer(n) = 2
                     /\ \A a \in 1..2 : rd.box[1][a] <= n[2][a] /\ n[2][a] < rd.box[2][a] }

\* a call that pruned a node above layer 2, yields a layer-2 node attached to
\* a node more than one layer above it, and leaves a layer-2 descendant out
C20_Witness ==
    /\ rd.pc = "subgraph"
    /\ \E m \in Descendants(table, rd.node) :
          /\ get_chunk_layer(m) \in 3..(SubTop - 1)
          /\ ~bound_check(m[2], get_chunk_layer(m) - 2, rd.box)
    /\ \E p \in DOMAIN table : \E n \in table[p].children :
          /\ get_chunk_layer(n) = 2 /\ get_chunk_layer(p) > 3
          /\ n \in rd.sub
    /\ \E p \in DOMAIN table : \E n \in table[p].children :
          /\ get_chunk_layer(n) > 2 /\ get_chunk_layer(p) = get_chunk_layer(n) + 1
          /\ \E d \in Descendants(table, n) : d \in rd.sub
    /\ \E n \in DOMAIN table : get_chunk_layer(n) = 2 /\ n \notin rd.sub


(***************************************************************************)
(* get_cross_chunk_edges: the cross edges of a node at its own layer       *)
(***************************************************************************)
\* chunks that touch on a face
Adjacent(c, d) ==
    (IF c[1] > d[1] THEN c[1] - d[1] ELSE d[1] - c[1])
        + (IF c[2] > d[2] THEN c[2] - d[2] ELSE d[2] - c[2]) = 1

\* the chunks of T that are reached from R over touching chunks of T
RECURSIVE GrowChunks(_, _)
GrowChunks(T, R) ==
    LET more == R \cup { d \in T : \E c \in R : Adjacent(c, d) }
    IN IF more = R THEN R ELSE GrowChunks(T, more)

\* layer-2 chunks of one object: the part inside every chunk of every layer
\* is connected, so that the object has one node per chunk it occupies
CrossInputs ==
    { S \in SUBSET SubChunks :
        /\ Cardinality(S) \in 1..MaxSubNodes
        /\ \A l \in 3..SubTop : \A c \in { Coarsen(d, l - 2) : d \in S } :
              LET T == { d \in S : Coarsen(d, l - 2) = c }
              IN GrowChunks(T, {CHOOSE d \in T : TRUE}) = T }

\* the loop with the coordinates never divided
CrossLayerLoop_m(coords0, coords1, turns) == IF coords0 # coords1 THEN turns ELSE 0

\* get_cross_chunk_edges_layer for one edge: 1 + the number of turns of the
\* loop over range(2, layer_count) in which the coordinates differ
RECURSIVE CrossLayerLoop(_, _, _)
CrossLayerLoop(coords0, coords1, turns) ==
    IF turns = 0 THEN 0
    ELSE (IF coords0 # coords1 THEN 1 ELSE 0)
           + CrossLayerLoop(Coarsen(coords0, 1), Coarsen(coords1, 1), turns - 1)

get_cross_chunk_edges_layer(layers, edge) ==
    1 + CrossLayerLoop(edge[1][2], edge[2][2], layers - 2)

\* the hierarchy over S with its supervoxels and their atomic cross edges:
\* every supervoxel has an edge to supervoxel 1 of each touching chunk
CrossTable(S, skip, two) ==
    LET T == SubTable(S, skip)
        svs(c) == { <<1, c, s>> : s \in IF two THEN {1, 2} ELSE {1} }
        edges(c) == { <<a, <<1, d, 1>>>> : a \in svs(c), d \in { e \in S : Adjacent(c, e) } }
    IN [ n \in DOMAIN T \cup UNION { svs(c) : c \in S } |->
           IF n[1] = 1
           THEN [ EmptyRow EXCEPT !.exists = TRUE, !.parents = << << <<2, n[2], 1>>, 1 >> >> ]
           ELSE IF n[1] = 2
           THEN [ T[n] EXCEPT !.haschildren = TRUE, !.children = svs(n[2]),
                              !.hascross = edges(n[2]) # {}, !.cross = edges(n[2]) ]
           ELSE T[n] ]

\* chunk_utils.get_bounding_children_chunks: the chunks of children_layer on
\* the faces of chunk coords of layer, inside the volume
get_bounding_children_chunks(layer, coords, children_layer) ==
    LET chunks_count == FANOUT^(layer - children_layer)
        lo == << coords[1] * chunks_count, coords[2] * chunks_count >>
        hi == << lo[1] + chunks_count, lo[2] + chunks_count >>
    IN { c \in { Coarsen(d, children_layer - 2) : d \in SubChunks } :
           /\ \A a \in 1..2 : lo[a] <= c[a] /\ c[a] < hi[a]
           /\ \E a \in 1..2 : c[a] \in { lo[a], hi[a] - 1 } }

\* _get_bounding_l2_children, one turn of `while children_layer >= 2` for one
\* parent: children above children_layer are replaced by their children, of
\* which those at children_layer are kept only in a bounding chunk
RECURSIVE BoundingLoop(_, _, _, _)
BoundingLoop(tbl, parent_id, children, children_layer) ==
    IF children_layer < 2 THEN children
    ELSE
      LET bounding_chunk_ids ==
              get_bounding_children_chunks(get_chunk_layer(parent_id), parent_id[2],
                                           children_layer)
          masked_children == { c \in children : get_chunk_layer(c) > children_layer }
          grand_children ==
              UNION { { g \in read_row(tbl, child).children :
                          get_chunk_layer(g) = children_layer => g[2] \in bounding_chunk_ids }
                      : child \in masked_children }
      IN BoundingLoop(tbl, parent_id, (children \ masked_children) \cup grand_children,
                      children_layer - 1)

get_bounding_l2_children(tbl, parent_id) ==
    BoundingLoop(tbl, parent_id, {parent_id}, get_chunk_layer(parent_id) - 1)

\* get_atomic_cross_edges of one layer-2 id: {layer: edges} over the layers
\* range(2, layer_count) whose column is in the row
get_atomic_cross_edges(tbl, l2_id) ==
    LET col(l) == { e \in read_row(tbl, l2_id).cross : get_cross_chunk_edges_layer(SubTop, e) = l }
    IN [ l \in { k \in 2..(SubTop - 1) : col(k) # {} } |-> col(l) ]

\* filter_min_layer_cross_edges: the first layer of range(node_layer,
\* layer_count) with edges; with an empty range `edges_` is unbound (layer 0)
filter_min_layer_cross_edges(cross_edges_d, node_layer) ==
    LET with == { l \in node_layer..(SubTop - 1) : l \in DOMAIN cross_edges_d }
    IN IF with # {} THEN CHOOSE l \in with : \A k \in with : l <= k
       ELSE IF node_layer >= SubTop THEN 0
       ELSE SubTop

\* filter_min_layer_cross_edges_multiple: <<min_layer, edges>>, <<0, {}>>
\* when the call above raised
filter_min_layer_cross_edges_multiple(ds, node_layer) ==
    LET layers == { filter_min_layer_cross_edges(d, node_layer) : d \in ds } \cup {SubTop}
        min_layer == CHOOSE l \in layers : \A k \in layers : l <= k
    IN << min_layer,
          UNION { IF min_layer \in DOMAIN d THEN d[min_layer] ELSE {} : d \in ds } >>

\* _get_min_layer_cross_edges line 758: "cross edges irrelevant"
min_layer_irrelevant(node_layer, min_layer) == node_layer < min_layer

\* _get_min_layer_cross_edges
get_min_layer_cross_edges(tbl, node_id, ds, uplift) ==
    LET f == filter_min_layer_cross_edges_multiple(ds, get_chunk_layer(node_id))
        min_layer == f[1]
        node_root_id == LET r == graph_get_root(tbl, node_id, now, min_layer)
                        IN IF r = ErrId THEN node_id ELSE r
        up(e) == << node_root_id, get_roots(tbl, <<e[2]>>, now, min_layer, FALSE)[1] >>
    IN IF min_layer = 0 THEN [ uplift |-> uplift, err |-> TRUE, layer |-> 0, edges |-> {} ]
       ELSE IF min_layer_irrelevant(get_chunk_layer(node_id), min_layer)
       THEN [ uplift |-> uplift, err |-> FALSE, layer |-> min_layer, edges |-> {} ]
       ELSE IF ~uplift
       THEN [ uplift |-> uplift, err |-> FALSE, layer |-> min_layer, edges |-> f[2] ]
       ELSE [ uplift |-> uplift, err |-> FALSE, layer |-> min_layer,
              edges |-> { up(e) : e \in f[2] } ]

\* get_cross_chunk_edges([node_id], uplift)
GetCrossChunkEdges ==
    /\ rd.pc = "idle"
    /\ \E node_id \in { n \in DOMAIN table : get_chunk_layer(n) >= 2 }, uplift \in BOOLEAN :
          LET l2_edges_ds == { get_atomic_cross_edges(table, l2_id) :
                                 l2_id \in get_bounding_l2_children(table, node_id) }
          IN rd' = [ rd EXCEPT
                       !.pc = "cross", !.node = node_id,
                       !.cx = get_min_layer_cross_edges(table, node_id, l2_edges_ds, uplift) ]
    /\ UNCHANGED <<varsI, varsG, varsL, eng, rep, job>>

InitCross ==
    /\ \E S \in CrossInputs, skip \in BOOLEAN, two \in BOOLEAN :
          table = CrossTable(S, skip, two)
    /\ now = 1
    /\ gin = [ cross |-> FALSE, atomic |-> {}, layers |-> {} ]
    /\ ops = [ o \in Ops |-> OpIdle ]
    /\ ghist = GhistIdle
    /\ IdleI /\ IdleL /\ IdleE

NextCross == GetCrossChunkEdges

SpecCross == InitCross /\ [][NextCross]_vars

(***************************************************************************)
(* Claims about get_cross_chunk_edges                                      *)
(***************************************************************************)
\* the node of layer m on the parent chain of n, n itself included
AncestorAt(tbl, n, m) ==
    LET up == { p \in DOMAIN tbl : n \in Descendants(tbl, p) /\ get_chunk_layer(p) = m }
    IN IF up = {} THEN NoId ELSE CHOOSE p \in up : TRUE

\* the atomic cross edges of layer m at the layer-2 descendants of n that lie
\* in a chunk on the faces of n's chunk subtree
BoundingCrossEdges(tbl, n, m) ==
    UNION { { e \in read_row(tbl, d).cross : get_cross_chunk_edges_layer(SubTop, e) = m } :
              d \in { b \in Descendants(tbl, n) :
                        /\ get_chunk_layer(b) = 2
                        /\ b[2] \in get_bounding_children_chunks(get_chunk_layer(n), n[2], 2) } }

\* C21: get_cross_chunk_edges of a node at layer l returns {m: E}, m the
\* smallest layer >= l at which a bounding layer-2 descendant has an atomic
\* cross edge and E those edges (relabelled to the ancestors at layer m with
\* uplift); it returns no edges, at layer L, only when there is no cross edge
\* at any layer >= l
C21_MinLayerCrossEdges ==
    rd.pc = "cross" =>
        LET l == get_chunk_layer(rd.node)
            M == { m \in l..(SubTop - 1) : BoundingCrossEdges(table, rd.node, m) # {} }
            m == CHOOSE k \in M : \A j \in M : k <= j
            E == BoundingCrossEdges(table, rd.node, m)
            lifted == { << AncestorAt(table, e[1], m), AncestorAt(table, e[2], m) >> : e \in E }
        IN /\ ~rd.cx.err
           /\ M = {} => rd.cx.layer = SubTop /\ rd.cx.edges = {}
           /\ M # {} => /\ rd.cx.layer = m
                        /\ ~rd.cx.uplift => rd.cx.edges = E
                        /\ (rd.cx.uplift /\ \A e \in lifted : e[1] # NoId /\ e[2] # NoId)
                              => rd.cx.edges = lifted


(***************************************************************************)
(* Edge categorization: categorize_edges, categorize_edges_v2              *)
(* (graph/edges/utils.py)                                                  *)
(***************************************************************************)
MaxCatEdges == 2    \* edges handed to one call

\* the supervoxels of two touching chunks and the directed pairs over them
CatSvs == { <<1, <<x, 0>>, s>> : x \in 0..1, s \in 1..2 }
CatEdges == { e \in CatSvs \X CatSvs : e[1] # e[2] }
CatEdgeSets == { E \in SUBSET CatEdges : Cardinality(E) <= MaxCatEdges }

\* supervoxel -> layer-2 parent: the supervoxels of a chunk lie under one
\* layer-2 node of that chunk or under one node each
CatParents ==
    { d \in [ CatSvs -> { <<2, <<x, 0>>, s>> : x \in 0..1, s \in 1..2 } ] :
        \A v \in CatSvs : /\ d[v][2] = v[2]
                          /\ d[v][3] = 1 \/ (d[v][3] = v[3] /\ v[3] = 2) }

\* categorize_edges(meta, supervoxels, edges): <<in_edges, out_edges,
\* cross_edges>>; mask1 and mask2 are the tests on node_ids1 and node_ids2
categorize_edges(supervoxels, edges) ==
    LET mask1(e) == e[1] \in supervoxels
        mask2(e) == e[2] \in supervoxels
        in_edges == { e \in edges : mask1(e) /\ mask2(e) }
        all_out_edges == { e \in edges : mask1(e) /\ ~mask2(e) }
        cross_edges == { e \in all_out_edges : get_cross_chunk_edges_layer(SubTop, e) > 1 }
    IN << in_edges, all_out_edges \ cross_edges, cross_edges >>

\* categorize_edges_v2(meta, edges, get_sv_parents, graph_id, sv_parent_d):
\* `assert node_ids1 == node_ids3` takes the truth value of an array, which
\* exists for one element only; the remap is in place, so the edges that are
\* returned hold the parents
categorize_edges_v2(edges, sv_parent_d) ==
    LET remap == { << sv_parent_d[e[1]], sv_parent_d[e[2]] >> : e \in edges }
        in_edges == { e \in remap : e[1] = e[2] }
        all_out_ == { e \in remap : get_chunk_layer(e[1]) > 1 /\ e[1] # e[2] }
        cross_edges == { e \in all_out_ : get_cross_chunk_edges_layer(SubTop, e) > 1 }
    IN IF Cardinality(edges) # 1
       THEN [ err |-> TRUE, res |-> <<{}, {}, {}>> ]
       ELSE [ err |-> FALSE, res |-> << in_edges, all_out_ \ cross_edges, cross_edges >> ]

\* one call of categorize_edges
Categorize ==
    /\ rd.pc = "idle"
    /\ \E supervoxels \in SUBSET CatSvs, edges \in CatEdgeSets :
          rd' = [ rd EXCEPT
                    !.pc = "categorize",
                    !.cat = [ supervoxels |-> supervoxels, edges |-> edges,
                              sv_parent_d |-> <<>>, err |-> FALSE,
                              res |-> categorize_edges(supervoxels, edges) ] ]
    /\ UNCHANGED <<varsI, varsG, varsL, eng, rep, job>>

\* one call of categorize_edges_v2
CategorizeV2 ==
    /\ rd.pc = "idle"
    /\ \E sv_parent_d \in CatParents, edges \in CatEdgeSets :
          LET r == categorize_edges_v2(edges, sv_parent_d)
          IN rd' = [ rd EXCEPT
                       !.pc = "categorize_v2",
                       !.cat = [ supervoxels |-> {}, edges |-> edges,
                                 sv_parent_d |-> sv_parent_d, err |-> r.err,
                                 res |-> r.res ] ]
    /\ UNCHANGED <<varsI, varsG, varsL, eng, rep, job>>

NextCat == Categorize \/ CategorizeV2

SpecCat == InitLock /\ [][NextCat]_vars

(***************************************************************************)
(* Claims about the edge categorization                                    *)
(***************************************************************************)
\* the number of endpoints of e in the set S
Inside(e, S) == Cardinality({ i \in 1..2 : e[i] \in S })

\* C22: categorize_edges partitions the edges that touch the set: both
\* endpoints in the set is `in`; exactly one endpoint in the set, in either
\* position, is `out` when both endpoints are in the same chunk and `cross`
\* otherwise; the results are disjoint and hold no edge without an endpoint
\* in the set
C22_CategorizePartitions ==
    rd.pc = "categorize" =>
        LET S == rd.cat.supervoxels
            E == rd.cat.edges
        IN /\ rd.cat.res[1] = { e \in E : Inside(e, S) = 2 }
           /\ rd.cat.res[2] = { e \in E : Inside(e, S) = 1 /\ e[1][2] = e[2][2] }
           /\ rd.cat.res[3] = { e \in E : Inside(e, S) = 1 /\ e[1][2] # e[2][2] }
           /\ rd.cat.res[1] \cap rd.cat.res[2] = {}
           /\ rd.cat.res[1] \cap rd.cat.res[3] = {}
           /\ rd.cat.res[2] \cap rd.cat.res[3] = {}

\* C23: categorize_edges_v2 yields the same in / out / cross edges as the
\* union over the layer-2 ids of categorize_edges with that id's supervoxels
C23_V2EqualsPerL2 ==
    rd.pc = "categorize_v2" =>
        LET d == rd.cat.sv_parent_d
            per(l2) == categorize_edges({ v \in CatSvs : d[v] = l2 }, rd.cat.edges)
            L2s == { d[v] : v \in CatSvs }
        IN /\ ~rd.cat.err
           /\ \A k \in 1..3 : rd.cat.res[k] = UNION { per(l2)[k] : l2 \in L2s }


(***************************************************************************)
(* get_cross_chunk_edges_layer on chunks of a volume of 4 x 4 x 4 chunks   *)
(***************************************************************************)
LayerXs == 0..3
LayerChunks == LayerXs \X LayerXs \X LayerXs

\* layer_count of that volume
LayerTop ==
    CHOOSE l \in 2..10 :
        /\ FANOUT^(l - 2) >= Cardinality(LayerXs)
        /\ \A k \in 2..(l - 1) : FANOUT^(k - 2) < Cardinality(LayerXs)

\* get_cross_chunk_edges_layer(meta, [edge]) for one edge between supervoxels
CrossChunkEdgesLayer ==
    /\ rd.pc = "idle"
    /\ \E c0 \in LayerChunks, c1 \in LayerChunks :
          LET edge == << <<1, c0, 1>>, <<1, c1, 1>> >>
          IN rd' = [ rd EXCEPT
                       !.pc = "edge_layer",
                       !.cx = [ uplift |-> FALSE, err |-> FALSE, edges |-> {edge},
                                layer |-> get_cross_chunk_edges_layer(LayerTop, edge) ] ]
    /\ UNCHANGED <<varsI, varsG, varsL, eng, rep, job>>

NextLayer == CrossChunkEdgesLayer

SpecLayer == InitLock /\ [][NextLayer]_vars

(***************************************************************************)
(* Claims about the crossing layer of an edge                              *)
(***************************************************************************)
\* 1 + the number of integer divisions by F after which c0 and c1 are equal
RECURSIVE DivideUntilEqual(_, _)
DivideUntilEqual(c0, c1) ==
    IF c0 = c1 THEN 1 ELSE 1 + DivideUntilEqual(Coarsen(c0, 1), Coarsen(c1, 1))

\* the chunks of the edge whose layer was computed
EdgeChunks == LET e == CHOOSE e \in rd.cx.edges : TRUE IN << e[1][2], e[2][2] >>

\* C24: the crossing layer is found by dividing both chunk coordinates by F
\* until they are equal; with fanout 2 it is 2 for chunks (0,0,0) and (0,0,1)
\* and 3 for chunks (0,0,0) and (0,1,1)
C24_CrossingLayerAsStated ==
    rd.pc = "edge_layer" =>
        /\ rd.cx.layer = DivideUntilEqual(EdgeChunks[1], EdgeChunks[2])
        /\ EdgeChunks = << <<0, 0, 0>>, <<0, 0, 1>> >> => rd.cx.layer = 2
        /\ EdgeChunks = << <<0, 0, 0>>, <<0, 1, 1>> >> => rd.cx.layer = 3

\* C24 as the code has it: the crossing layer is found by dividing both chunk
\* coordinates by F until they are equal; with fanout 2 it is 2 for chunks
\* (0,0,0) and (0,0,1) and also 2 for chunks (0,0,0) and (0,1,1), which are
\* equal after one division
C24_CrossingLayer ==
    rd.pc = "edge_layer" =>
        /\ rd.cx.layer = DivideUntilEqual(EdgeChunks[1], EdgeChunks[2])
        /\ EdgeChunks = << <<0, 0, 0>>, <<0, 0, 1>> >> => rd.cx.layer = 2
        /\ EdgeChunks = << <<0, 0, 0>>, <<0, 1, 1>> >> => rd.cx.layer = 2

C24_Witness ==
    /\ rd.pc = "edge_layer"
    /\ EdgeChunks = << <<0, 0, 0>>, <<0, 1, 1>> >>
    /\ rd.cx.layer = 2


(***************************************************************************)
(* The polling ingest job: run_ingest, enqueue_parent_tasks                *)
(* (jobs/ingestion.py)                                                     *)
(***************************************************************************)
MaxChunks == 5      \* atomic chunks along x; one chunk along y and z

JobFanouts == {2, 3}

\* the layer at which one chunk holds the volume
JobLayerCount(F, bounds) ==
    CHOOSE l \in 2..10 :
        /\ Pow(F, l - 2) >= bounds[1]
        /\ \A k \in 2..(l - 1) : Pow(F, k - 2) < bounds[1]

\* the chunks of a layer inside the volume
JobChunks(F, bounds, layer) ==
    { <<x, y, z>> : x \in 0..(CeilDiv(bounds[1], Pow(F, layer - 2)) - 1),
                    y \in 0..(CeilDiv(bounds[2], Pow(F, layer - 2)) - 1),
                    z \in 0..(CeilDiv(bounds[3], Pow(F, layer - 2)) - 1) }

\* _get_children_coords line 41: np.ceil(chunk_id_bounds / (2 ** (layer - 2)))
layer_bounds(fan_out, chunk_id_bounds, layer) ==
    [ a \in 1..3 |-> CeilDiv(chunk_id_bounds[a], Pow(2, layer - 2)) ]

\* _get_children_coords(layer, parent_coords): layer is the children's layer
get_children_coords(fan_out, chunk_id_bounds, layer, parent_coords) ==
    { child_coords \in
        { << parent_coords[1] * fan_out + d[1], parent_coords[2] * fan_out + d[2],
             parent_coords[3] * fan_out + d[3] >> :
             d \in (0..(fan_out - 1)) \X (0..(fan_out - 1)) \X (0..(fan_out - 1)) } :
        \A a \in 1..3 : child_coords[a] < layer_bounds(fan_out, chunk_id_bounds, layer)[a] }

\* enqueue_parent_tasks lines 68-73: the parent of a finished chunk
job_parent(fan_out, chunk) ==
    << chunk[1] + 1, << chunk[2][1] \div fan_out, chunk[2][2] \div fan_out,
                        chunk[2][3] \div fan_out >> >>

\* run_ingest: enqueue_atomic_tasks, then the polling loop starts
RunIngest ==
    /\ job = JobIdle
    /\ \E F \in JobFanouts, n \in 2..MaxChunks :
          job' = [ JobIdle EXCEPT
                     !.fan_out = F, !.chunk_id_bounds = <<n, 1, 1>>,
                     !.todo = { <<2, c>> : c \in JobChunks(F, <<n, 1, 1>>, 2) } ]
    /\ UNCHANGED <<varsI, varsG, varsL, eng, rep, rd>>

\* an rq worker finishes a job: its id enters rq:finished; jobs above the top
\* layer are left in the queue
JobDone ==
    /\ \E c \in job.todo \cup job.queued :
          /\ c[1] <= JobLayerCount(job.fan_out, job.chunk_id_bounds)
          /\ job' = [ job EXCEPT !.todo = @ \ {c}, !.queued = @ \ {c},
                                 !.finished = @ \cup {c} ]
    /\ UNCHANGED <<varsI, varsG, varsL, eng, rep, rd>>

\* one call of enqueue_parent_tasks
Poll ==
    /\ job.fan_out # 0
    /\ LET results == job.finished
           parent_chunks == { job_parent(job.fan_out, c) : c \in results }
           children_results(p) == { c \in results : job_parent(job.fan_out, c) = p }
           coords_of(p) ==
               get_children_coords(job.fan_out, job.chunk_id_bounds, p[1] - 1, p[2])
           ready == { p \in parent_chunks :
                        Cardinality(coords_of(p)) = Cardinality(children_results(p)) }
           removed == UNION { children_results(p) : p \in ready }
           polled == { [ parent |-> p, results |-> children_results(p),
                         coords |-> coords_of(p), enqueued |-> p \in ready ] :
                       p \in parent_chunks }
       IN /\ ready # {} \/ job.polled # polled
          /\ job' = [ job EXCEPT
                        !.queued = @ \cup ready,
                        !.finished = @ \ removed,
                        !.completed = @ + Cardinality(removed),
                        !.enq = [ p \in DOMAIN @ \cup ready |->
                                    (IF p \in DOMAIN @ THEN @[p] ELSE 0)
                                      + (IF p \in ready THEN 1 ELSE 0) ],
                        !.polled = polled ]
    /\ UNCHANGED <<varsI, varsG, varsL, eng, rep, rd>>

NextJob == RunIngest \/ JobDone \/ Poll

SpecJob == InitLock /\ [][NextJob]_vars

(***************************************************************************)
(* Claims about the polling ingest job                                     *)
(***************************************************************************)
\* floor(c / F) on every axis
FloorDiv(c, F) == << c[1] \div F, c[2] \div F, c[3] \div F >>

C27_NoTaskAboveTop ==
    \A p \in job.queued \cup DOMAIN job.enq :
        p[1] <= JobLayerCount(job.fan_out, job.chunk_id_bounds)


(***************************************************************************)
(* Claims about the end of the ingest run                                  *)
(***************************************************************************)
\* the sentinels in a queue
Sentinels(q) == Cardinality({ i \in DOMAIN q : q[i] = STOP_SENTINEL })

\* C26: when the top-layer task completes, exactly one STOP sentinel is put on
\* the queue for each worker process that start_ingest started (n_workers),
\* and sentinels are emitted only once per run
C26_OneSentinelPerWorker ==
    [][ hist'.stops # hist.stops =>
            /\ hist.stops = 0
            /\ Sentinels(task_q') - Sentinels(task_q) = icfg.n_workers ]_vars


(***************************************************************************)
(* The edit cache of the graph object: add_edges, remove_edges,            *)
(* undo_operation, redo_operation called on one ChunkedGraph               *)
(***************************************************************************)
MaxCalls == 2       \* edit calls made by one caller

EditCallers == 1..2

EditKinds == { "add_edges", "remove_edges", "undo_operation", "redo_operation" }

\* add_edges lines 519-520 and remove_edges lines 552-553 start with
\* cache_utils.clear(); self.cache = CacheService(self); undo_operation and
\* redo_operation (lines 585-607) go straight to execute()
installs_cache(kind) == kind \in { "add_edges", "remove_edges" }

\* a caller enters an entry point
EditEnter(o, kind) ==
    /\ rd.ec.calls[o].pc = "idle"
    /\ rd.ec.calls[o].n < MaxCalls
    /\ LET staged == IF installs_cache(kind) THEN {} ELSE rd.ec.staged
       IN rd' = [ rd EXCEPT
                    !.cache = @ \/ installs_cache(kind),
                    !.ec.owner = IF installs_cache(kind) THEN o ELSE @,
                    !.ec.staged = staged,
                    !.ec.calls[o] = [ pc |-> "run", kind |-> kind, n |-> @.n + 1,
                                      start |-> staged, seen |-> {} ] ]
    /\ UNCHANGED <<eng, rep, job, varsI, varsG, varsL>>

\* the operation stages a new node in self.cg.cache
EditStage(o) ==
    /\ rd.ec.calls[o].pc = "run"
    /\ rd.cache
    /\ << o, rd.ec.calls[o].n >> \notin rd.ec.staged
    /\ rd' = [ rd EXCEPT !.ec.staged = @ \cup { << o, rd.ec.calls[o].n >> } ]
    /\ UNCHANGED <<eng, rep, job, varsI, varsG, varsL>>

\* the operation reads through self.cg.cache
EditRead(o) ==
    /\ rd.ec.calls[o].pc = "run"
    /\ rd.cache
    /\ rd.ec.calls[o].seen # rd.ec.staged
    /\ rd' = [ rd EXCEPT !.ec.calls[o].seen = @ \cup rd.ec.staged ]
    /\ UNCHANGED <<eng, rep, job, varsI, varsG, varsL>>

\* execute() returns or raises: the entry point returns what it returned
EditReturn(o) ==
    /\ rd.ec.calls[o].pc = "run"
    /\ rd' = [ rd EXCEPT !.ec.calls[o].pc = "done" ]
    /\ UNCHANGED <<eng, rep, job, varsI, varsG, varsL>>

\* the caller goes on to its next call
EditAgain(o) ==
    /\ rd.ec.calls[o].pc = "done"
    /\ rd' = [ rd EXCEPT !.ec.calls[o].pc = "idle" ]
    /\ UNCHANGED <<eng, rep, job, varsI, varsG, varsL>>

NextEditCache ==
    \E o \in EditCallers :
        \/ \E kind \in EditKinds : EditEnter(o, kind)
        \/ EditStage(o)
        \/ EditRead(o)
        \/ EditReturn(o)
        \/ EditAgain(o)

SpecEditCache == InitLock /\ [][NextEditCache]_vars

(***************************************************************************)
(* Claims about the edit cache                                             *)
(***************************************************************************)
\* the nodes staged by the current call of o
StagedBy(o) == { n \in rd.ec.staged : n = << o, rd.ec.calls[o].n >> }

\* C28: every edit entry point (add_edges, remove_edges, undo_operation,
\* redo_operation) starts with an empty edit cache, and no edit cache holding
\* the operation's staged nodes remains installed on the graph object after
\* the operation has returned or raised
C28_CacheClearedAtStartAndEnd ==
    \A o \in EditCallers :
        /\ rd.ec.calls[o].pc # "idle" => rd.ec.calls[o].start = {}
        /\ rd.ec.calls[o].pc = "done" => ~(rd.cache /\ StagedBy(o) # {})

\* C29: two edit operations running at the same time on one ChunkedGraph
\* object never read, clear or overwrite each other's edit cache: the nodes
\* staged by one operation are visible only to that operation
C29_CachePerOperation ==
    \A o \in EditCallers :
        rd.ec.calls[o].pc = "run" =>
            /\ \A n \in rd.ec.calls[o].seen : n[1] = o
            /\ installs_cache(rd.ec.calls[o].kind) => rd.ec.owner = o


(***************************************************************************)
(* Reads of one column for several ids: get_children, get_parents,         *)
(* get_atomic_cross_edges without a cache                                  *)
(***************************************************************************)
MaxReadIds == 2     \* ids asked for in one read

HasColumn(tbl, id, column) ==
    /\ read_row(tbl, id).exists
    /\ CASE column = "children" -> read_row(tbl, id).haschildren
         [] column = "parents"  -> read_row(tbl, id).parents # <<>>
         [] column = "cross"    -> read_row(tbl, id).hascross

\* client.read_nodes(node_ids, properties): the keys of the dict it returns,
\* the rows that hold a cell of the columns asked for
read_nodes(tbl, node_ids, column) == { id \in node_ids : HasColumn(tbl, id, column) }

\* _get_children_multiple, lines 263-275: the children of x if x is in the rows
\* read, an empty array otherwise
get_children_multiple(tbl, node_ids) ==
    LET node_children_d == read_nodes(tbl, node_ids, "children")
    IN [ x \in node_ids |-> IF x \in node_children_d THEN read_row(tbl, x).children ELSE {} ]

ReadIdSets(S) == { I \in SUBSET S : Cardinality(I) \in 1..MaxReadIds }

\* get_children(node_ids), lines 235-261
GetChildren ==
    /\ rd.pc = "idle"
    /\ \E node_ids \in ReadIdSets(DOMAIN table) :
          rd' = [ rd EXCEPT !.pc = "children",
                            !.rc = [ ids |-> node_ids, err |-> FALSE,
                                     res |-> get_children_multiple(table, node_ids) ] ]
    /\ UNCHANGED <<varsI, varsG, varsL, eng, rep, job>>

\* get_parents(node_ids), lines 179-210: [] when no row is read, otherwise
\* parent_rows[id_][0].value for every id asked for (KeyError without a row)
GetParents ==
    /\ rd.pc = "idle"
    /\ \E node_ids \in ReadIdSets(DOMAIN table) :
          LET parent_rows == read_nodes(table, node_ids, "parents")
          IN rd' = [ rd EXCEPT !.pc = "parents",
                               !.rc = [ ids |-> node_ids,
                                        err |-> parent_rows # {} /\ parent_rows # node_ids,
                                        res |-> get_parents(table, node_ids, now) ] ]
    /\ UNCHANGED <<varsI, varsG, varsL, eng, rep, job>>

\* get_atomic_cross_edges(l2_ids), lines 277-296: node_edges_d_d[id_] for every
\* id asked for (KeyError without a row)
GetAtomicCrossEdges ==
    /\ rd.pc = "idle"
    /\ \E l2_ids \in ReadIdSets({ n \in DOMAIN table : get_chunk_layer(n) = 2 }) :
          LET node_edges_d_d == read_nodes(table, l2_ids, "cross")
          IN rd' = [ rd EXCEPT !.pc = "atomic_cross",
                               !.rc = [ ids |-> l2_ids,
                                        err |-> node_edges_d_d # l2_ids,
                                        res |-> IF node_edges_d_d # l2_ids THEN <<>>
                                                ELSE [ id_ \in l2_ids |->
                                                         get_atomic_cross_edges(table, id_) ] ] ]
    /\ UNCHANGED <<varsI, varsG, varsL, eng, rep, job>>

NextRead == GetChildren \/ GetParents \/ GetAtomicCrossEdges

SpecRead == InitCross /\ [][NextRead]_vars

(***************************************************************************)
(* Claims about missing columns                                            *)
(***************************************************************************)
\* get_children gave every id asked for its children, none without the column
ChildrenPerId ==
    /\ ~rd.rc.err
    /\ DOMAIN rd.rc.res = rd.rc.ids
    /\ \A x \in rd.rc.ids :
          rd.rc.res[x] = IF HasColumn(table, x, "children")
                         THEN read_row(table, x).children ELSE {}

\* C30: reads treat a missing column as empty: for every id asked for,
\* get_children, get_atomic_cross_edges and get_parents give an empty (or null)
\* entry when the row has no such column, and the entries of the other ids,
\* instead of failing or dropping results
C30_MissingColumnIsEmpty ==
    /\ rd.pc = "children" => ChildrenPerId
    /\ rd.pc = "parents" =>
          /\ ~rd.rc.err
          /\ DOMAIN rd.rc.res = rd.rc.ids
          /\ \A x \in rd.rc.ids :
                rd.rc.res[x] = IF HasColumn(table, x, "parents")
                               THEN read_row(table, x).parents[1][1] ELSE NoId
    /\ rd.pc = "atomic_cross" =>
          /\ ~rd.rc.err
          /\ DOMAIN rd.rc.res = rd.rc.ids
          /\ \A x \in rd.rc.ids :
                ~HasColumn(table, x, "cross") => DOMAIN rd.rc.res[x] = {}


(***************************************************************************)
(* The ingest scheduler under fair scheduling of the worker processes      *)
(***************************************************************************)
\* one step of worker process w
WorkerStep(w) ==
    \/ Get(w)
    \/ RunFail(w)
    \/ RunOkNoBuild(w)
    \/ RunOkTop(w)
    \/ RunOkParent(w)
    \/ FetchLock(w)
    \/ Acquire(w)
    \/ Check(w)
    \/ InitCount(w)
    \/ GetCount(w)
    \/ SetCount(w)
    \/ TestCount(w)
    \/ DelCount(w)
    \/ PutParent(w)
    \/ Tally(w)

\* every started process that can take a step is scheduled; task functions
\* raise at most MaxFailures times, so every task function succeeds in the end
SpecIngestFair ==
    InitIngest /\ [][NextIngest]_vars /\ \A w \in Workers : WF_vars(WorkerStep(w))

\* every chunk up to the top layer has been queued and completed
AllChunksBuilt ==
    /\ \A t \in RealTasks : hist.completed[t] >= 1
    /\ \A t \in ParentTasks : hist.enq[t] >= 1

\* every started worker has consumed a sentinel and left its loop
AllWorkersExited == \A w \in Workers : w <= icfg.n_workers => wk[w].pc = "exit"

\* C31: under fair scheduling, with every task function succeeding in the end,
\* start_ingest with build_graph enabled terminates: every parent chunk up to
\* the top layer is eventually queued and completed and every started worker
\* eventually consumes a sentinel and exits, in every interleaving
C31_IngestTerminates ==
    icfg.build_graph => <>(AllChunksBuilt /\ AllWorkersExited)


(***************************************************************************)
(* Claims about requeued tasks                                             *)
(***************************************************************************)
\* how often task t is on the queue
Occurrences(q, t) == Cardinality({ i \in 1..Len(q) : q[i] = t })

\* C32: a chunk task whose function returned without raising is never put back
\* on the task queue and never executed again; only a task whose function
\* raised is requeued, and such a failed attempt leaves the parent's
\* remaining-children counter and the per-layer progress counters unchanged
C32_OnlyFailedTasksRequeued ==
    [][ /\ \A t \in RealTasks :
              hist'.completed[t] > hist.completed[t] =>
                  /\ hist.completed[t] = 0
                  /\ Occurrences(task_q', t) <= Occurrences(task_q, t)
        /\ hist'.fails > hist.fails =>
              /\ counts' = counts
              /\ layer_counts' = layer_counts
              /\ \E w \in Workers : task_q' = Append(task_q, wk[w].task) ]_vars


\* C33: with build_graph disabled every atomic chunk task is eventually
\* executed successfully even if some attempts fail: a task requeued after a
\* failure is still consumed by a worker before all workers have exited on
\* their sentinels
C33_AtomicTasksAllDone ==
    ~icfg.build_graph => <>(\A t \in AtomicTasks : hist.completed[t] >= 1)


(***************************************************************************)
(* Claims about the polls of enqueue_parent_tasks                          *)
(***************************************************************************)
\* the chunks of the layer below that lie inside the bounds and under parent p
InBoundsChildren(p) ==
    { << p[1] - 1, c >> : c \in { d \in JobChunks(job.fan_out, job.chunk_id_bounds, p[1] - 1) :
                                    FloorDiv(d, job.fan_out) = p[2] } }

RootOfEach(node_ids, stop_layer) ==
    [ i \in 1..Len(node_ids) |-> graph_get_root(table, node_ids[i], now, stop_layer) ]

\* C35: with ceil = true and the same stop_layer and time stamp,
\* get_roots(ids)[i] equals get_root(ids[i]) at every position i; get_roots
\* fails whenever get_root would fail with RootNotFound for some id, and never
\* returns a node whose layer is below stop_layer
C35_RootsEqualRootOfEach ==
    \A node_ids \in RootsInputs, stop_layer \in 0..TopLayer :
        LET each == RootOfEach(node_ids, stop_layer)
            roots == get_roots(table, node_ids, now, stop_layer, TRUE)
            stop == IF stop_layer = 0 THEN TopLayer ELSE stop_layer
        IN IF \E i \in 1..Len(node_ids) : each[i] = ErrId
           THEN roots = <<ErrId>>
           ELSE /\ roots = each
                /\ \A i \in 1..Len(node_ids) : get_chunk_layer(roots[i]) >= stop


(***************************************************************************)
(* Claims about _get_bounding_l2_children                                  *)
(***************************************************************************)
\* C36: _get_bounding_l2_children returns for an input node only layer-2
\* descendants of that node, each of them in a boundary chunk of the node's
\* chunk subtree, also when descendants are attached through skip
\* connections; for a layer-2 input it returns the node itself
C36_BoundingL2Children ==
    rd.pc = "cross" =>
        LET l2_ids == get_bounding_l2_children(table, rd.node)
        IN /\ \A n \in l2_ids :
                 /\ get_chunk_layer(n) = 2
                 /\ n \in Descendants(table, rd.node)
                 /\ n[2] \in get_bounding_children_chunks(get_chunk_layer(rd.node),
                                                          rd.node[2], 2)
           /\ get_chunk_layer(rd.node) = 2 => l2_ids = {rd.node}


(***************************************************************************)
(* Claims about the agreement of the parents and children columns          *)
(***************************************************************************)
\* the current nodes: the stored supervoxels and the nodes on their chains of
\* current parents
CurrentNodes ==
    { Up(table, s, k) : s \in Supervoxels \cap DOMAIN table, k \in 0..TopLayer } \ {NoId}

\* C37: after any sequence of ingest steps and merges the parents and children
\* records agree for all current nodes: c is listed in children(p) if and only
\* if p is the current parent of c, every node a merge created is listed as a
\* child of the new node one level above it, and no node is listed as a child
\* of two current nodes
C37_ParentsChildrenAgree ==
    Sequential =>
        /\ \A p \in CurrentNodes, c \in CurrentNodes :
              c \in read_row(table, p).children <=> CurrentParent(table, c) = p
        /\ \A q \in ghist.alloc :
              (q[2] \in CurrentNodes /\ CurrentParent(table, q[2]) # NoId) =>
                  q[2] \in read_row(table, CurrentParent(table, q[2])).children
        /\ \A c \in DOMAIN table :
              Cardinality({ p \in CurrentNodes : c \in read_row(table, p).children }) <= 1


(***************************************************************************)
(* Claims about merges on disjoint root sets                               *)
(***************************************************************************)
\* the pre-merge roots of the endpoints of operation o
PreRoots(o) == { ops[o].pre[1], ops[o].pre[2] }

\* every other merge made so far worked on roots other than those of o
DisjointRoots(o) ==
    \A q \in Ops \ {o} : ops[q].pc # "new" => PreRoots(q) \cap PreRoots(o) = {}

\* C38: a merge changes only rows of nodes under the two pre-merge roots of
\* its endpoints, plus its newly allocated nodes: the rows of every node under
\* any other root are left as they were, so that merges on disjoint root sets
\* do not disturb each other in whatever order they run, interleaved included
C38_MergeFrame ==
    [][ \A o \in Ops :
          (ops[o].pc = "computed" /\ ops'[o].pc = "done" /\ DisjointRoots(o)
             /\ OnBuiltGraph) =>
              \A n \in DOMAIN table :
                  read_row(table', n) # read_row(table, n) =>
                      get_root(table, n, now) \in PreRoots(o) ]_vars

====
